---- MODULE Spec2Model ----
(***************************************************************************)
(* Model of adder, the documentation-driven CLI generator: the naming      *)
(* resolver (Config.GetPackageName, Config.IsIndexFile), the incremental   *)
(* regeneration oracle and the generation run (Generator), and the         *)
(* frontmatter parser with its cross-field validation (Parser).            *)
(*                                                                         *)
(* Go strings whose characters matter (paths, package names, field names)  *)
(* are sequences of one-character strings; strings that are only compared  *)
(* for equality (strategy names, type names) are TLA+ strings.             *)
(***************************************************************************)
EXTENDS Integers, Sequences, FiniteSets, TLC

VARIABLES
    cfg,        \* the Config the component under test holds
    pkgCalls,   \* log of GetPackageName calls: path, strategy at call, result
    outNames,   \* log of getOutputFilename calls: source path, result
    fnCalls,    \* log of the calls of one pure function: input, result
    parseIn,    \* the document handed to Parser.ParseContent
    parseOut,   \* what ParseContent returned for parseIn
    walkOut,    \* what Parser.ParseDirectory returned for srcFiles
    srcFiles,   \* input tree: source path -> [mtime, doc]
    outFiles,   \* output tree: output path -> [mtime, content, writes]
    clock,      \* filesystem clock
    gen,        \* Generator fields: commands, force, skippedFiles
    lastRun,    \* observation of the last Generate call
    lastShould, \* observation of the last shouldRegenerateFile call
    fsFaults    \* injected filesystem failures: [op, path]

namingVars == <<pkgCalls, outNames, fnCalls>>
parserVars == <<parseIn, parseOut, walkOut>>
genVars    == <<srcFiles, outFiles, clock, gen, lastRun, lastShould, fsFaults>>
vars       == <<cfg, pkgCalls, outNames, fnCalls, parseIn, parseOut, walkOut, srcFiles, outFiles, clock,
                gen, lastRun, lastShould, fsFaults>>

(***************************************************************************)
(* Strings                                                                 *)
(***************************************************************************)
LowerLetters == {"a","b","c","d","e","f","g","h","i","j","k","l","m",
                 "n","o","p","q","r","s","t","u","v","w","x","y","z"}
UpperLetters == {"A","B","C","D","E","F","G","H","I","J","K","L","M",
                 "N","O","P","Q","R","S","T","U","V","W","X","Y","Z"}

\* isLetter: (b >= 'a' && b <= 'z') || (b >= 'A' && b <= 'Z')
isLetter(b) == b \in LowerLetters \cup UpperLetters

\* strings.ReplaceAll with one-character old and new
ReplaceAll(s, old, new) ==
    [i \in 1..Len(s) |-> IF s[i] = old THEN new ELSE s[i]]

\* strings.HasSuffix
HasSuffix(s, suf) ==
    /\ Len(suf) <= Len(s)
    /\ SubSeq(s, Len(s) - Len(suf) + 1, Len(s)) = suf

\* strings.HasPrefix
HasPrefix(s, pre) ==
    /\ Len(pre) <= Len(s)
    /\ SubSeq(s, 1, Len(pre)) = pre

\* strings.Index: position of the first occurrence of sep in s, 0 when absent
Index(s, sep) ==
    LET hits == {i \in 1..(Len(s) - Len(sep) + 1) : SubSeq(s, i, i + Len(sep) - 1) = sep}
    IN IF hits = {} THEN 0 ELSE CHOOSE i \in hits : \A j \in hits : i <= j

\* a split that takes a missing separator for one at the end
SplitN2Lenient(s, sep) ==
    LET i == Index(s, sep)
    IN IF i = 0 THEN <<s, <<>> >>
       ELSE <<SubSeq(s, 1, i - 1), SubSeq(s, i + Len(sep), Len(s))>>

\* strings.SplitN(s, sep, 2)
SplitN2(s, sep) ==
    LET i == Index(s, sep)
    IN IF i = 0 THEN <<s>>
       ELSE <<SubSeq(s, 1, i - 1), SubSeq(s, i + Len(sep), Len(s))>>

\* strings.TrimSpace
WhiteSpace == {" ", "\n", "\t", "\r"}
RECURSIVE TrimLeft(_)
TrimLeft(s) == IF s # <<>> /\ Head(s) \in WhiteSpace THEN TrimLeft(Tail(s)) ELSE s
RECURSIVE TrimRight(_)
TrimRight(s) ==
    IF s # <<>> /\ s[Len(s)] \in WhiteSpace THEN TrimRight(SubSeq(s, 1, Len(s) - 1)) ELSE s
TrimSpace(s) == TrimRight(TrimLeft(s))

\* strings.TrimSuffix
TrimSuffix(s, suf) ==
    IF HasSuffix(s, suf) THEN SubSeq(s, 1, Len(s) - Len(suf)) ELSE s

\* index of the last occurrence of character c in s, 0 when absent
LastIndex(s, c) ==
    LET hits == {i \in 1..Len(s) : s[i] = c}
    IN IF hits = {} THEN 0 ELSE CHOOSE i \in hits : \A j \in hits : j <= i

\* filepath.Dir, on the clean slash-separated relative paths fs.WalkDir yields
Dir(p) ==
    LET i == LastIndex(p, "/")
    IN IF i = 0 THEN <<".">> ELSE SubSeq(p, 1, i - 1)

\* filepath.Base, on the same paths
Base(p) == SubSeq(p, LastIndex(p, "/") + 1, Len(p))

\* filepath.Ext: from the last dot of the final element, "" when it has none
Ext(p) ==
    LET b == Base(p)
        i == LastIndex(b, ".")
    IN IF i = 0 THEN <<>> ELSE SubSeq(b, i, Len(b))

\* the maximal runs of characters of s that are not in seps
RECURSIVE FieldsFrom(_, _, _, _)
FieldsFrom(s, seps, i, cur) ==
    IF i > Len(s)
    THEN IF cur = <<>> THEN <<>> ELSE <<cur>>
    ELSE IF s[i] \in seps
         THEN (IF cur = <<>> THEN <<>> ELSE <<cur>>) \o FieldsFrom(s, seps, i + 1, <<>>)
         ELSE FieldsFrom(s, seps, i + 1, Append(cur, s[i]))

\* the elements of a slash-separated path, empty elements dropped
SplitSlash(p) == FieldsFrom(p, {"/"}, 1, <<>>)

RECURSIVE JoinSlash(_)
JoinSlash(segs) ==
    IF segs = <<>> THEN <<>>
    ELSE IF Len(segs) = 1 THEN segs[1]
    ELSE segs[1] \o <<"/">> \o JoinSlash(Tail(segs))

\* the element loop of filepath.Clean: "." dropped, ".." removes the element
\* before it, or stays when a relative path has nothing left to remove
RECURSIVE CleanSegs(_, _, _, _)
CleanSegs(segs, i, out, rooted) ==
    IF i > Len(segs) THEN out
    ELSE IF segs[i] = <<".">> THEN CleanSegs(segs, i + 1, out, rooted)
    ELSE IF segs[i] = <<".", ".">>
         THEN IF Len(out) > 0 /\ out[Len(out)] # <<".", ".">>
              THEN CleanSegs(segs, i + 1, SubSeq(out, 1, Len(out) - 1), rooted)
              ELSE IF rooted THEN CleanSegs(segs, i + 1, out, rooted)
              ELSE CleanSegs(segs, i + 1, Append(out, segs[i]), rooted)
    ELSE CleanSegs(segs, i + 1, Append(out, segs[i]), rooted)

\* filepath.Clean
Clean(p) ==
    IF p = <<>> THEN <<".">>
    ELSE LET rooted == p[1] = "/"
             body == JoinSlash(CleanSegs(SplitSlash(p), 1, <<>>, rooted))
         IN IF rooted THEN <<"/">> \o body
            ELSE IF body = <<>> THEN <<".">> ELSE body

\* filepath.Join: empty elements ignored, the rest joined and cleaned
Join(elems) ==
    LET kept == SelectSeq(elems, LAMBDA e : e # <<>>)
    IN IF kept = <<>> THEN <<>> ELSE Clean(JoinSlash(kept))

\* byte order of the characters that occur in file names
ByteOrder == <<" ", "+", "-", ".", "/">> \o
             <<"0","1","2","3","4","5","6","7","8","9">> \o
             <<"A","B","C","D","E","F","G","H","I","J","K","L","M",
               "N","O","P","Q","R","S","T","U","V","W","X","Y","Z">> \o
             <<"_">> \o
             <<"a","b","c","d","e","f","g","h","i","j","k","l","m",
               "n","o","p","q","r","s","t","u","v","w","x","y","z">>
Rank(c) == CHOOSE i \in 1..Len(ByteOrder) : ByteOrder[i] = c

\* a < b for strings, byte by byte
RECURSIVE StrLess(_, _)
StrLess(a, b) ==
    IF b = <<>> THEN FALSE
    ELSE IF a = <<>> THEN TRUE
    ELSE IF Head(a) # Head(b) THEN Rank(Head(a)) < Rank(Head(b))
    ELSE StrLess(Tail(a), Tail(b))

\* p is visited before q by fs.WalkDir: the entries of each directory are
\* read in name order and a directory is walked when its entry is reached
RECURSIVE SegsLess(_, _)
SegsLess(a, b) ==
    IF b = <<>> THEN FALSE
    ELSE IF a = <<>> THEN TRUE
    ELSE IF Head(a) # Head(b) THEN StrLess(Head(a), Head(b))
    ELSE SegsLess(Tail(a), Tail(b))
WalkedBefore(p, q) == SegsLess(SplitSlash(p), SplitSlash(q))

\* the files of a tree in the order fs.WalkDir reports them
RECURSIVE WalkOrder(_)
WalkOrder(paths) ==
    IF paths = {} THEN <<>>
    ELSE LET first == CHOOSE p \in paths :
                          \A q \in paths \ {p} : WalkedBefore(p, q)
         IN <<first>> \o WalkOrder(paths \ {first})

(***************************************************************************)
(* Config                                                                  *)
(***************************************************************************)
MdExt       == <<".","m","d">>
IndexMd     == <<"i","n","d","e","x">> \o MdExt
UIndexMd    == <<"_","i","n","d","e","x">> \o MdExt
PkgPrefix   == <<"p","k","g","_">>
DefaultPkg  == <<"g","e","n">>
DefaultSuffix == <<"_","g",".","g","o">>
DefaultOut  == <<"o","u","t">>
DefaultIn   == <<"d","o","c","s">>

\* DefaultConfig, with short stand-ins for the package, directories and suffix
DefaultConfig ==
    [BinaryName          |-> <<>>,
     InputDir            |-> DefaultIn,
     OutputDir           |-> DefaultOut,
     Package             |-> DefaultPkg,
     GeneratedFileSuffix |-> DefaultSuffix,
     IndexFormat         |-> "directory",
     PackageStrategy     |-> "directory"]

\* MergeWithFlags taking every flag that is set, its default value included
MergeWithFlagsEverySet(config, binaryName, input, output, pkg, suffix) ==
    [config EXCEPT
        !.BinaryName = IF binaryName # <<>> THEN binaryName ELSE @,
        !.InputDir   = IF input # <<>> THEN input ELSE @,
        !.OutputDir  = IF output # <<>> THEN output ELSE @,
        !.Package    = IF pkg # <<>> THEN pkg ELSE @,
        !.GeneratedFileSuffix = IF suffix # <<>> THEN suffix ELSE @]

\* MergeWithFlags: the merged Config (a new value; config is not written)
MergeWithFlags(config, binaryName, input, output, pkg, suffix) ==
    [BinaryName          |-> IF binaryName # <<>> THEN binaryName
                             ELSE config.BinaryName,
     InputDir            |-> IF input # <<>> /\ input # DefaultIn THEN input
                             ELSE config.InputDir,
     OutputDir           |-> IF output # <<>> /\ output # DefaultOut THEN output
                             ELSE config.OutputDir,
     Package             |-> IF pkg # <<>> /\ pkg # DefaultPkg THEN pkg
                             ELSE config.Package,
     GeneratedFileSuffix |-> IF suffix # <<>> /\ suffix # DefaultSuffix THEN suffix
                             ELSE config.GeneratedFileSuffix,
     IndexFormat         |-> config.IndexFormat,
     PackageStrategy     |-> config.PackageStrategy,
     Validation          |-> config.Validation]

\* GetIndexPatterns with hugo taking index.md as well as _index.md
GetIndexPatternsHugoBoth(c, dirName) ==
    CASE c.IndexFormat = "index"     -> <<IndexMd>>
      [] c.IndexFormat = "_index"    -> <<UIndexMd>>
      [] c.IndexFormat = "directory" -> <<dirName \o MdExt, IndexMd>>
      [] c.IndexFormat = "hugo"      -> <<UIndexMd, IndexMd>>
      [] OTHER                       -> <<dirName \o MdExt, IndexMd>>

\* Config.GetIndexPatterns
GetIndexPatterns(c, dirName) ==
    CASE c.IndexFormat = "index"     -> <<IndexMd>>
      [] c.IndexFormat = "_index"    -> <<UIndexMd>>
      [] c.IndexFormat = "directory" -> <<dirName \o MdExt, IndexMd>>
      [] c.IndexFormat = "hugo"      -> <<UIndexMd>>
      [] OTHER                       -> <<dirName \o MdExt, IndexMd>>

\* Config.IsIndexFile
IsIndexFile(c, filename, dirName) ==
    LET patterns == GetIndexPatterns(c, dirName)
    IN \E i \in 1..Len(patterns) : filename = patterns[i]

\* the shared tail of the directory and path branches of GetPackageName:
\* separators and dashes to underscores, pkg_ prefix unless a letter leads
ToPackageName(s) ==
    LET packageName == ReplaceAll(ReplaceAll(s, "/", "_"), "-", "_")
    IN IF Len(packageName) > 0 /\ ~isLetter(packageName[1])
       THEN PkgPrefix \o packageName
       ELSE packageName

\* the directory branch as it was before index files were unified with their
\* siblings: an index file named after its own directory only
DirectoryPackageIndexSpecial(c, filePath) ==
    LET dir == Dir(filePath)
    IN IF dir = <<".">> THEN c.Package
       ELSE IF IsIndexFile(c, Base(filePath), Base(dir))
            THEN ToPackageName(Base(dir))
            ELSE ToPackageName(dir)

\* the `directory` branch of GetPackageName
DirectoryPackage(c, filePath) ==
    LET dir == Dir(filePath)
    IN IF dir = <<".">> THEN c.Package ELSE ToPackageName(dir)

\* the path branch without its index-file case: every file named by its
\* full path
PathPackageEveryFile(c, filePath) ==
    ToPackageName(TrimSuffix(filePath, Ext(filePath)))

\* the `path` branch of GetPackageName
PathPackage(c, filePath) ==
    LET dir      == Dir(filePath)
        filename == Base(filePath)
    IN IF dir # <<".">> /\ IsIndexFile(c, filename, Base(dir))
       THEN ToPackageName(dir)
       ELSE ToPackageName(TrimSuffix(filePath, Ext(filePath)))

\* GetPackageName with an unknown strategy falling back to the base package
GetPackageNameUnknownSingle(c, filePath) ==
    CASE c.PackageStrategy = "directory" ->
            [name |-> DirectoryPackage(c, filePath), config |-> c]
      [] c.PackageStrategy = "path" ->
            [name |-> PathPackage(c, filePath), config |-> c]
      [] OTHER ->
            [name |-> c.Package, config |-> c]

\* GetPackageName falling back to the directory branch without storing the
\* strategy in the Config
GetPackageNameNoStore(c, filePath) ==
    CASE c.PackageStrategy = "single" ->
            [name |-> c.Package, config |-> c]
      [] c.PackageStrategy = "path" ->
            [name |-> PathPackage(c, filePath), config |-> c]
      [] OTHER ->
            [name |-> DirectoryPackage(c, filePath), config |-> c]

\* Config.GetPackageName: the name returned and the Config after the call
\* (the default branch stores "directory" in PackageStrategy and recurses)
GetPackageName(c, filePath) ==
    CASE c.PackageStrategy = "single" ->
            [name |-> c.Package, config |-> c]
      [] c.PackageStrategy = "directory" ->
            [name |-> DirectoryPackage(c, filePath), config |-> c]
      [] c.PackageStrategy = "path" ->
            [name |-> PathPackage(c, filePath), config |-> c]
      [] OTHER ->
            [name   |-> DirectoryPackage(c, filePath),
             config |-> [c EXCEPT !.PackageStrategy = "directory"]]

(***************************************************************************)
(* YAML values, as yaml.v2 hands them to the parser                        *)
(***************************************************************************)
Nil == [t |-> "nil", v |-> 0]                  \* nil interface / YAML null
YStr(s)      == [t |-> "string", v |-> s]       \* Go string
YInt(n)      == [t |-> "int", v |-> n]          \* Go int
YBool(b)     == [t |-> "bool", v |-> b]         \* Go bool
YFloat(n, d) == [t |-> "float64", v |-> <<n, d>>] \* the number n/d, d > 0
YList(xs)    == [t |-> "[]interface {}", v |-> xs]
YMap(m)      == [t |-> "map[interface {}]interface {}", v |-> m]

IsStr(x)  == x.t = "string"
IsList(x) == x.t = "[]interface {}"
IsMap(x)  == x.t = "map[interface {}]interface {}"
Has(m, k) == k \in DOMAIN m

Digits == <<"0","1","2","3","4","5","6","7","8","9">>
IsDigit(c) == \E i \in 1..10 : Digits[i] = c

\* strconv.Itoa on the small naturals of the model
Itoa(n) == IF n < 10 THEN <<Digits[n + 1]>>
           ELSE <<Digits[(n \div 10) + 1], Digits[(n % 10) + 1]>>

\* fmt.Sprintf("%v", e) for the scalar shapes an enum entry can take
SprintV(e) ==
    CASE e.t = "string" -> e.v
      [] e.t = "int"    -> Itoa(e.v)
      [] e.t = "bool"   -> IF e.v THEN <<"t","r","u","e">>
                           ELSE <<"f","a","l","s","e">>
      [] OTHER          -> <<"<","n","i","l",">">>

\* strconv.Atoi succeeds: an optional sign followed by one or more digits
\* (the model's strings are too short to overflow)
AtoiOk(s) ==
    LET body == IF Len(s) > 0 /\ s[1] \in {"+", "-"} THEN Tail(s) ELSE s
    IN Len(body) > 0 /\ \A i \in 1..Len(body) : IsDigit(body[i])

(***************************************************************************)
(* pascalCase                                                              *)
(***************************************************************************)
LowerSeq == <<"a","b","c","d","e","f","g","h","i","j","k","l","m",
              "n","o","p","q","r","s","t","u","v","w","x","y","z">>
UpperSeq == <<"A","B","C","D","E","F","G","H","I","J","K","L","M",
              "N","O","P","Q","R","S","T","U","V","W","X","Y","Z">>

\* bytes of 0x80 and above, named by their value: the two-byte letters
\* C3 A9 (e acute) and C3 89 (E acute), and the three bytes of U+FFFD
NonASCII  == {"C3", "A9", "89", "EF", "BF", "BD"}
RuneError == <<"EF", "BF", "BD">>
ELower    == <<"C3", "A9">>
EUpper    == <<"C3", "89">>

\* unicode.ToUpper / unicode.ToLower on one ASCII character
UpperASCII(b) ==
    IF \E k \in 1..26 : LowerSeq[k] = b
    THEN UpperSeq[CHOOSE k \in 1..26 : LowerSeq[k] = b] ELSE b
LowerASCII(b) ==
    IF \E k \in 1..26 : UpperSeq[k] = b
    THEN LowerSeq[CHOOSE k \in 1..26 : UpperSeq[k] = b] ELSE b

\* strings.Map(unicode.ToUpper or unicode.ToLower, s) from byte i on: a
\* well-formed character is mapped, and a byte that begins no well-formed
\* character is written as U+FFFD
RECURSIVE MapCase(_, _, _)
MapCase(s, i, upper) ==
    IF i > Len(s) THEN <<>>
    ELSE IF s[i] \notin NonASCII
    THEN <<IF upper THEN UpperASCII(s[i]) ELSE LowerASCII(s[i])>>
            \o MapCase(s, i + 1, upper)
    ELSE IF s[i] = "C3" /\ i + 1 <= Len(s) /\ s[i + 1] \in {"A9", "89"}
    THEN (IF upper THEN EUpper ELSE ELower) \o MapCase(s, i + 2, upper)
    ELSE IF i + 2 <= Len(s) /\ SubSeq(s, i, i + 2) = RuneError
    THEN RuneError \o MapCase(s, i + 3, upper)
    ELSE RuneError \o MapCase(s, i + 1, upper)

\* strings.ToUpper / strings.ToLower
ToUpper(s) == MapCase(s, 1, TRUE)
ToLower(s) == MapCase(s, 1, FALSE)

IsFieldSep(r) == r = "-" \/ r = "_" \/ r = " "

\* strings.FieldsFunc(s, IsFieldSep)
FieldsFunc(s) == FieldsFrom(s, {"-", "_", " "}, 1, <<>>)

RECURSIVE ConcatCapitalized(_, _)
ConcatCapitalized(parts, i) ==
    IF i > Len(parts) THEN <<>>
    ELSE (IF Len(parts[i]) > 0
          THEN ToUpper(SubSeq(parts[i], 1, 1)) \o ToLower(Tail(parts[i]))
          ELSE <<>>) \o ConcatCapitalized(parts, i + 1)

\* pascalCase
pascalCase(s) == ConcatCapitalized(FieldsFunc(s), 1)

(***************************************************************************)
(* Parser: arguments and flags                                             *)
(***************************************************************************)
TypeString      == "string"
TypeBool        == "bool"
TypeInt         == "int"
TypeStringArray == "stringArray"

\* an error value: the rule violated, the file named in the message, the
\* other values the message is formatted from, and the prefixes wrapped
\* around it (innermost first)
Err(kind, file, info) == [kind |-> kind, file |-> file, info |-> info, wrap |-> <<>>]
Wrap(e, prefix) == [e EXCEPT !.wrap = Append(@, prefix)]
NoInfo == [none |-> TRUE]

\* Argument and Flag as the parser fills them
Argument(name, description, required, type) ==
    [Name |-> name, Description |-> description, Required |-> required, Type |-> type]
Flag(name, type, default, required, enum) ==
    [Name |-> name, Type |-> type, Default |-> default, Required |-> required,
     Enum |-> enum]

\* the array-of-strings branch passing over what is not a string
RECURSIVE parseStringArgumentsSkipOthers(_, _, _, _)
parseStringArgumentsSkipOthers(args, filePath, i, acc) ==
    IF i > Len(args) THEN [args |-> acc, err |-> Nil]
    ELSE IF ~IsStr(args[i])
         THEN parseStringArgumentsSkipOthers(args, filePath, i + 1, acc)
         ELSE parseStringArgumentsSkipOthers(args, filePath, i + 1,
                  Append(acc, Argument(args[i].v, "", TRUE, TypeString)))

\* the array-of-strings branch of parseArguments
RECURSIVE parseStringArguments(_, _, _, _)
parseStringArguments(args, filePath, i, acc) ==
    IF i > Len(args) THEN [args |-> acc, err |-> Nil]
    ELSE IF ~IsStr(args[i])
         THEN [args |-> <<>>,
               err |-> Err("mixed array formats not supported (expected all strings)",
                           filePath, [index |-> i - 1])]
         ELSE parseStringArguments(args, filePath, i + 1,
                  Append(acc, Argument(args[i].v, "", TRUE, TypeString)))

\* the array-of-objects branch of parseArguments
RECURSIVE parseObjectArguments(_, _, _, _)
parseObjectArguments(args, filePath, i, acc) ==
    IF i > Len(args) THEN [args |-> acc, err |-> Nil]
    ELSE IF ~IsMap(args[i])
         THEN [args |-> <<>>,
               err |-> Err("mixed array formats not supported (expected all objects)",
                           filePath, [index |-> i - 1])]
    ELSE LET argMap == args[i].v IN
         IF ~Has(argMap, "name")
         THEN [args |-> <<>>,
               err |-> Err("argument: name is required", filePath, [index |-> i - 1])]
         ELSE IF ~IsStr(argMap["name"])
         THEN [args |-> <<>>,
               err |-> Err("argument: name must be a string", filePath, [index |-> i - 1])]
         ELSE LET desc == IF Has(argMap, "description") /\ IsStr(argMap["description"])
                          THEN argMap["description"].v ELSE ""
                  req  == IF Has(argMap, "required") /\ argMap["required"].t = "bool"
                          THEN argMap["required"].v ELSE FALSE
                  typ  == IF Has(argMap, "type") /\ IsStr(argMap["type"])
                          THEN argMap["type"].v ELSE TypeString
              IN parseObjectArguments(args, filePath, i + 1,
                     Append(acc, Argument(argMap["name"].v, desc, req, typ)))

\* Parser.parseArguments
parseArguments(rawArgs, filePath) ==
    IF ~IsList(rawArgs)
    THEN [args |-> <<>>, err |-> Err("arguments must be an array", filePath, NoInfo)]
    ELSE LET args == rawArgs.v IN
         IF Len(args) = 0 THEN [args |-> <<>>, err |-> Nil]
         ELSE IF IsStr(args[1]) THEN parseStringArguments(args, filePath, 1, <<>>)
         ELSE IF IsMap(args[1]) THEN parseObjectArguments(args, filePath, 1, <<>>)
         ELSE [args |-> <<>>,
               err |-> Err("unsupported argument format - expected string or object",
                           filePath, NoInfo)]

\* the enum entries of a flag mapping: strings kept, other scalars formatted
parseEnum(flagMap) ==
    IF Has(flagMap, "enum") /\ IsList(flagMap["enum"])
    THEN [i \in 1..Len(flagMap["enum"].v) |-> SprintV(flagMap["enum"].v[i])]
    ELSE <<>>

\* the loop over flagsData in ParseContent; label is "flag" for `flags` and
\* "persistent_flag" for `persistent_flags`. Entries that are not mappings
\* are passed over.
RECURSIVE parseFlagEntries(_, _, _, _, _)
parseFlagEntries(flagsData, filePath, label, i, acc) ==
    IF i > Len(flagsData) THEN [flags |-> acc, err |-> Nil]
    ELSE IF ~IsMap(flagsData[i])
         THEN parseFlagEntries(flagsData, filePath, label, i + 1, acc)
    ELSE LET flagMap == flagsData[i].v IN
         IF ~Has(flagMap, "name")
         THEN [flags |-> <<>>,
               err |-> Err("name is required", filePath,
                           [index |-> i - 1, label |-> label])]
         ELSE IF ~IsStr(flagMap["name"])
         THEN [flags |-> <<>>,
               err |-> Err("name must be a string", filePath,
                           [index |-> i - 1, label |-> label])]
         ELSE LET typ == IF Has(flagMap, "type") /\ IsStr(flagMap["type"])
                         THEN flagMap["type"].v ELSE TypeString
                  def == IF Has(flagMap, "default") THEN flagMap["default"] ELSE Nil
                  req == IF Has(flagMap, "required") /\ flagMap["required"].t = "bool"
                         THEN flagMap["required"].v ELSE FALSE
              IN parseFlagEntries(flagsData, filePath, label, i + 1,
                     Append(acc, Flag(flagMap["name"].v, typ, def, req,
                                      parseEnum(flagMap))))

\* the `flags` / `persistent_flags` block of ParseContent: a value that is
\* not an array leaves the list empty
parseFlags(commandMap, key, filePath, label) ==
    IF Has(commandMap, key) /\ IsList(commandMap[key])
    THEN parseFlagEntries(commandMap[key].v, filePath, label, 1, <<>>)
    ELSE [flags |-> <<>>, err |-> Nil]

(***************************************************************************)
(* Cross-field validation                                                  *)
(***************************************************************************)
\* the first error of a sequence of check results, Nil when all passed:
\* a loop that returns at the first failing element
RECURSIVE FirstErr(_, _)
FirstErr(errs, i) ==
    IF i > Len(errs) THEN Nil
    ELSE IF errs[i] # Nil THEN errs[i] ELSE FirstErr(errs, i + 1)

\* v != float64(int64(v)) for the number n/d
NotWhole(v) == (v[1] \div v[2]) * v[2] # v[1]

\* a default check that takes any string for an int flag
validateDefaultValueTypeAnyString(fieldName, fieldType, defaultValue, filePath) ==
    LET ft == IF fieldType = "" THEN "string" ELSE fieldType
        info == [field |-> fieldName, gotType |-> defaultValue.t]
    IN CASE ft = "string" ->
              IF ~IsStr(defaultValue)
              THEN Err("default value must be a string for type 'string'", filePath, info)
              ELSE Nil
         [] ft = "bool" ->
              IF defaultValue.t # "bool"
              THEN Err("default value must be a boolean for type 'bool'", filePath, info)
              ELSE Nil
         [] ft = "int" ->
              IF defaultValue.t \in {"int", "string"} THEN Nil
              ELSE IF defaultValue.t = "float64" /\ ~NotWhole(defaultValue.v) THEN Nil
              ELSE Err("default value must be an integer for type 'int'", filePath, info)
         [] ft = "stringArray" ->
              IF IsList(defaultValue)
                 /\ \A i \in 1..Len(defaultValue.v) : IsStr(defaultValue.v[i])
              THEN Nil
              ELSE Err("default value must be an array of strings for type 'stringArray'",
                       filePath, info)
         [] OTHER -> Err("unsupported type", filePath,
                         [field |-> fieldName, type |-> ft])

\* validateDefaultValueType
validateDefaultValueType(fieldName, fieldType, defaultValue, filePath) ==
    LET ft == IF fieldType = "" THEN "string" ELSE fieldType
        info == [field |-> fieldName, gotType |-> defaultValue.t]
    IN CASE ft = "string" ->
              IF ~IsStr(defaultValue)
              THEN Err("default value must be a string for type 'string'", filePath, info)
              ELSE Nil
         [] ft = "bool" ->
              IF defaultValue.t # "bool"
              THEN Err("default value must be a boolean for type 'bool'", filePath, info)
              ELSE Nil
         [] ft = "int" ->
              CASE defaultValue.t = "int" -> Nil
                [] defaultValue.t = "float64" ->
                     IF NotWhole(defaultValue.v)
                     THEN Err("default value must be a whole number for type 'int'",
                              filePath, [field |-> fieldName, gotNumber |-> defaultValue.v])
                     ELSE Nil
                [] defaultValue.t = "string" ->
                     IF ~AtoiOk(defaultValue.v)
                     THEN Err("default value must be an integer for type 'int'",
                              filePath, [field |-> fieldName, gotString |-> defaultValue.v])
                     ELSE Nil
                [] OTHER ->
                     Err("default value must be an integer for type 'int'", filePath, info)
         [] ft = "stringArray" ->
              IF IsList(defaultValue)
              THEN LET arr == defaultValue.v
                   IN FirstErr([i \in 1..Len(arr) |->
                          IF ~IsStr(arr[i])
                          THEN Err("default value array item must be a string for type 'stringArray'",
                                   filePath, [field |-> fieldName, index |-> i - 1,
                                              gotType |-> arr[i].t])
                          ELSE Nil], 1)
              ELSE Err("default value must be an array of strings for type 'stringArray'",
                       filePath, info)
         [] OTHER -> Err("unsupported type", filePath,
                         [field |-> fieldName, type |-> ft])

ValidFlagTypes == {"string", "bool", "int", "stringArray"}
ValidArgTypes  == {"string", "int", "bool"}

\* the enum block without the membership test of the default
validateFlagEnumNoMembership(flag, filePath) ==
    IF Len(flag.Enum) = 0 THEN Nil
    ELSE IF flag.Type # "string" /\ flag.Type # ""
    THEN Err("enum validation only supported on string type", filePath,
             [flag |-> flag.Name, type |-> flag.Type])
    ELSE IF \E i \in 1..Len(flag.Enum) : flag.Enum[i] = <<>>
    THEN Err("enum value cannot be empty", filePath, [flag |-> flag.Name])
    ELSE IF flag.Default # Nil /\ ~IsStr(flag.Default)
    THEN Err("default value must be string when enum is specified", filePath,
             [flag |-> flag.Name])
    ELSE Nil

\* the enum block of validateFlagConfiguration
validateFlagEnum(flag, filePath) ==
    IF Len(flag.Enum) = 0 THEN Nil
    ELSE IF flag.Type # "string" /\ flag.Type # ""
    THEN Err("enum validation only supported on string type", filePath,
             [flag |-> flag.Name, type |-> flag.Type])
    ELSE LET emptyAt == FirstErr([i \in 1..Len(flag.Enum) |->
                            IF flag.Enum[i] = <<>>
                            THEN Err("enum value cannot be empty", filePath,
                                     [flag |-> flag.Name, index |-> i - 1])
                            ELSE Nil], 1)
         IN IF emptyAt # Nil THEN emptyAt
            ELSE IF flag.Default = Nil THEN Nil
            ELSE IF ~IsStr(flag.Default)
            THEN Err("default value must be string when enum is specified", filePath,
                     [flag |-> flag.Name])
            ELSE IF ~\E i \in 1..Len(flag.Enum) : flag.Default.v = flag.Enum[i]
            THEN Err("default value must be one of the enum values", filePath,
                     [flag |-> flag.Name, default |-> flag.Default.v, enum |-> flag.Enum])
            ELSE Nil

\* validateFlagConfiguration
validateFlagConfiguration(flag, filePath, index) ==
    IF flag.Name = <<>>
    THEN Err("flag: name is required", filePath, [index |-> index])
    ELSE IF flag.Type # "" /\ flag.Type \notin ValidFlagTypes
    THEN Err("invalid type", filePath,
             [kind |-> "flag", field |-> flag.Name, type |-> flag.Type,
              legal |-> <<"string", "bool", "int", "stringArray">>])
    ELSE LET defErr == IF flag.Default # Nil
                       THEN validateDefaultValueType(flag.Name, flag.Type,
                                                     flag.Default, filePath)
                       ELSE Nil
         IN IF defErr # Nil THEN defErr ELSE validateFlagEnum(flag, filePath)

\* validateArgumentConfiguration (its defaulting of an empty type acts on
\* the loop's copy of the argument and is not seen by the caller)
validateArgumentConfiguration(arg, filePath, index) ==
    IF arg.Name = <<>>
    THEN Err("argument: name is required", filePath, [index |-> index])
    ELSE LET type == IF arg.Type = "" THEN "string" ELSE arg.Type
         IN IF type \notin ValidArgTypes
            THEN Err("invalid type", filePath,
                     [kind |-> "argument", field |-> arg.Name, type |-> type,
                      legal |-> <<"string", "int", "bool">>])
            ELSE Nil

\* the names of all fields in the order validateCommandConfiguration scans
\* them: arguments, flags, persistent flags
AllRawNames(cmd) ==
    [i \in 1..Len(cmd.Arguments) |-> cmd.Arguments[i].Name]
    \o [i \in 1..Len(cmd.Flags) |-> cmd.Flags[i].Name]
    \o [i \in 1..Len(cmd.PersistentFlags) |-> cmd.PersistentFlags[i].Name]

\* the closing duplicate check of validateCommandConfiguration: exact names
duplicateRawName(cmd, filePath) ==
    LET names == AllRawNames(cmd)
    IN FirstErr([j \in 1..Len(names) |->
           IF \E i \in 1..(j - 1) : names[i] = names[j]
           THEN Err("duplicate field name", filePath, [name |-> names[j]])
           ELSE Nil], 1)

\* validateCommandConfiguration
validateCommandConfiguration(cmd, filePath) ==
    IF cmd.Name = <<>> THEN Err("command name is required", filePath, NoInfo)
    ELSE IF cmd.Title = <<>> THEN Err("command title is required", filePath, NoInfo)
    ELSE LET flagErr == FirstErr([i \in 1..Len(cmd.Flags) |->
                 validateFlagConfiguration(cmd.Flags[i], filePath, i - 1)], 1)
             pflagErr == FirstErr([i \in 1..Len(cmd.PersistentFlags) |->
                 validateFlagConfiguration(cmd.PersistentFlags[i], filePath, i - 1)], 1)
             argErr == FirstErr([i \in 1..Len(cmd.Arguments) |->
                 validateArgumentConfiguration(cmd.Arguments[i], filePath, i - 1)], 1)
         IN IF flagErr # Nil THEN flagErr
            ELSE IF pflagErr # Nil THEN pflagErr
            ELSE IF argErr # Nil THEN argErr
            ELSE duplicateRawName(cmd, filePath)

(***************************************************************************)
(* Parser.validateCommand and Parser.ParseContent                          *)
(***************************************************************************)
\* Command as ParseContent assembles it (aliases and hidden play no part in
\* validation and are left out)
Command(title, name, arguments, flags, persistentFlags, description, filePath) ==
    [Title |-> title, Name |-> name, Arguments |-> arguments, Flags |-> flags,
     PersistentFlags |-> persistentFlags, Description |-> description,
     FilePath |-> filePath, IsRootCommand |-> FALSE, CommandPath |-> <<>>]

fieldSource(fieldType, originalName) ==
    [fieldType |-> fieldType, originalName |-> originalName]

DuplicateErr(cmd, fieldName, kind, name, existing) ==
    Err("duplicate field name (PascalCase)", cmd.FilePath,
        [ident |-> fieldName, fieldType |-> kind, name |-> name,
         otherType |-> existing.fieldType, otherName |-> existing.originalName])

\* the flag loop looking flags up by their declared name, not the derived one
RECURSIVE validateCommandFlagsRawNames(_, _, _)
validateCommandFlagsRawNames(cmd, i, fieldNames) ==
    IF i > Len(cmd.Flags) THEN [cmd |-> cmd, err |-> Nil]
    ELSE LET flag == cmd.Flags[i] IN
         IF flag.Name = <<>>
         THEN [cmd |-> cmd, err |-> Err("flag: name is required", cmd.FilePath,
                                        [index |-> i - 1])]
         ELSE LET type == IF flag.Type = "" THEN TypeString ELSE flag.Type
                  cmd1 == [cmd EXCEPT !.Flags[i].Type = type]
                  fieldName == flag.Name
              IN IF fieldName \in DOMAIN fieldNames
                 THEN [cmd |-> cmd1,
                       err |-> DuplicateErr(cmd, fieldName, "flag", flag.Name,
                                            fieldNames[fieldName])]
                 ELSE IF Len(flag.Enum) > 0 /\ type # TypeString
                 THEN [cmd |-> cmd1,
                       err |-> Err("enum is only supported for string flags",
                                   cmd.FilePath, [flag |-> flag.Name])]
                 ELSE validateCommandFlagsRawNames(cmd1, i + 1,
                          fieldNames @@ (fieldName :> fieldSource("flag", flag.Name)))

\* the flag loop of validateCommand; fieldNames is the map built so far
RECURSIVE validateCommandFlags(_, _, _)
validateCommandFlags(cmd, i, fieldNames) ==
    IF i > Len(cmd.Flags) THEN [cmd |-> cmd, err |-> Nil]
    ELSE LET flag == cmd.Flags[i] IN
         IF flag.Name = <<>>
         THEN [cmd |-> cmd, err |-> Err("flag: name is required", cmd.FilePath,
                                        [index |-> i - 1])]
         ELSE LET type == IF flag.Type = "" THEN TypeString ELSE flag.Type
                  cmd1 == [cmd EXCEPT !.Flags[i].Type = type]
                  fieldName == pascalCase(flag.Name)
              IN IF fieldName \in DOMAIN fieldNames
                 THEN [cmd |-> cmd1,
                       err |-> DuplicateErr(cmd, fieldName, "flag", flag.Name,
                                            fieldNames[fieldName])]
                 ELSE IF Len(flag.Enum) > 0 /\ type # TypeString
                 THEN [cmd |-> cmd1,
                       err |-> Err("enum is only supported for string flags",
                                   cmd.FilePath, [flag |-> flag.Name])]
                 ELSE validateCommandFlags(cmd1, i + 1,
                          fieldNames @@ (fieldName :> fieldSource("flag", flag.Name)))

\* the argument loop of validateCommand, continuing into the flag loop
RECURSIVE validateCommandArguments(_, _, _)
validateCommandArguments(cmd, i, fieldNames) ==
    IF i > Len(cmd.Arguments) THEN validateCommandFlags(cmd, 1, fieldNames)
    ELSE LET arg == cmd.Arguments[i] IN
         IF arg.Name = <<>>
         THEN [cmd |-> cmd, err |-> Err("argument: name is required", cmd.FilePath,
                                        [index |-> i - 1])]
         ELSE LET type == IF arg.Type = "" THEN TypeString ELSE arg.Type
                  cmd1 == [cmd EXCEPT !.Arguments[i].Type = type]
                  fieldName == pascalCase(arg.Name)
              IN IF fieldName \in DOMAIN fieldNames
                 THEN [cmd |-> cmd1,
                       err |-> DuplicateErr(cmd, fieldName, "argument", arg.Name,
                                            fieldNames[fieldName])]
                 ELSE validateCommandArguments(cmd1, i + 1,
                          fieldNames @@ (fieldName :> fieldSource("argument", arg.Name)))

\* Parser.validateCommand: the command as the call leaves it, and the error
validateCommand(cmd) ==
    IF cmd.Name = <<>>
    THEN [cmd |-> cmd, err |-> Err("command name is required", cmd.FilePath, NoInfo)]
    ELSE IF cmd.Title = <<>>
    THEN [cmd |-> cmd, err |-> Err("command title is required", cmd.FilePath, NoInfo)]
    ELSE LET r == validateCommandArguments(cmd, 1, <<>>)
         IN IF r.err # Nil THEN r
            ELSE [cmd |-> r.cmd, err |-> validateCommandConfiguration(r.cmd, r.cmd.FilePath)]

\* the frontmatter delimiter
Delimiter == <<"-","-","-">>

\* ParseContent, the end: the validated command or the wrapped error
parseValidated(v) ==
    IF v.err # Nil
    THEN [cmd |-> Nil, err |-> Wrap(v.err, "validation failed")]
    ELSE [cmd |-> v.cmd, err |-> Nil]

\* ParseContent once the persistent flags pf are parsed
parsePersistentFlagsParsed(title, name, a, f, pf, bodyContent, filePath) ==
    IF pf.err # Nil THEN [cmd |-> Nil, err |-> pf.err]
    ELSE parseValidated(validateCommand(
             Command(title, name, a.args, f.flags, pf.flags, bodyContent, filePath)))

\* ParseContent once the flags f are parsed
parseFlagsParsed(commandMap, title, name, a, f, bodyContent, filePath) ==
    IF f.err # Nil THEN [cmd |-> Nil, err |-> f.err]
    ELSE parsePersistentFlagsParsed(
             title, name, a, f,
             parseFlags(commandMap, "persistent_flags", filePath, "persistent_flag"),
             bodyContent, filePath)

\* ParseContent once the arguments a are parsed
parseArgumentsParsed(commandMap, title, name, a, bodyContent, filePath) ==
    IF a.err # Nil
    THEN [cmd |-> Nil, err |-> Wrap(a.err, "parsing arguments")]
    ELSE parseFlagsParsed(commandMap, title, name, a,
                          parseFlags(commandMap, "flags", filePath, "flag"),
                          bodyContent, filePath)

\* ParseContent once the command name is read
parseNamedCommand(commandMap, title, name, bodyContent, filePath) ==
    IF name = <<>> THEN [cmd |-> Nil, err |-> Nil]
    ELSE parseArgumentsParsed(
             commandMap, title, name,
             IF Has(commandMap, "arguments")
             THEN parseArguments(commandMap["arguments"], filePath)
             ELSE [args |-> <<>>, err |-> Nil],
             bodyContent, filePath)

\* ParseContent once the command mapping is taken out of the frontmatter
parseCommandMap(commandMap, title, bodyContent, filePath) ==
    parseNamedCommand(commandMap, title,
                      IF Has(commandMap, "name") /\ IsStr(commandMap["name"])
                      THEN commandMap["name"].v ELSE <<>>,
                      bodyContent, filePath)

\* ParseContent once the frontmatter is unmarshalled into rawData
parseRawData(rawData, bodyContent, filePath) ==
    IF ~Has(rawData, "command") THEN [cmd |-> Nil, err |-> Nil]
    ELSE IF ~IsMap(rawData["command"])
    THEN [cmd |-> Nil,
          err |-> Err("command section must be an object", <<>>, NoInfo)]
    ELSE parseCommandMap(rawData["command"].v,
                         IF Has(rawData, "title") /\ IsStr(rawData["title"])
                         THEN rawData["title"].v ELSE <<>>,
                         bodyContent, filePath)

\* ParseContent once the content is split at the second delimiter
parseFrontmatter(doc, filePath, parts) ==
    CASE ~HasPrefix(doc.text, Delimiter) -> [cmd |-> Nil, err |-> Nil]
      [] HasPrefix(doc.text, Delimiter) /\ Len(parts) < 2 ->
            [cmd |-> Nil, err |-> Err("invalid frontmatter format", <<>>, NoInfo)]
      [] HasPrefix(doc.text, Delimiter) /\ Len(parts) = 2
            /\ TrimSpace(parts[1]) # <<>> /\ ~doc.yamlOk ->
            [cmd |-> Nil, err |-> Err("parsing frontmatter", <<>>, NoInfo)]
      [] OTHER ->
            parseRawData(IF TrimSpace(parts[1]) = <<>> THEN <<>> ELSE doc.root,
                         TrimSpace(parts[2]), filePath)

\* Parser.ParseContent on a document whose frontmatter yaml.v2 has already
\* turned into a tree: (cmd, err), each Nil when absent
ParseContent(doc, filePath) ==
    parseFrontmatter(doc, filePath,
                     SplitN2(SubSeq(doc.text, 4, Len(doc.text)), Delimiter))

(***************************************************************************)
(* Inputs of the naming resolver                                           *)
(***************************************************************************)
Slash(a, b) == a \o <<"/">> \o b

DirD    == <<"d">>
DirDS   == Slash(DirD, <<"s","-","x">>)
Dir1    == <<"1">>
DirDashed == <<"d","-","s","-","x">>   \* one directory named like the path d/s-x
LeafG   == <<"g">> \o MdExt
LeafT   == <<"t">> \o MdExt

\* source paths as fs.WalkDir reports them, relative to the input root
SourcePaths ==
    { LeafG, IndexMd,
      Slash(DirD, <<"d">> \o MdExt), Slash(DirD, IndexMd),
      Slash(DirD, UIndexMd), Slash(DirD, LeafG),
      Slash(DirDS, UIndexMd), Slash(DirDS, IndexMd),
      Slash(DirDS, LeafG), Slash(DirDS, LeafT),
      Slash(Dir1, IndexMd), Slash(Dir1, LeafG),
      Slash(DirDashed, LeafG) }

(***************************************************************************)
(* Inputs of the parser: frontmatter trees                                 *)
(***************************************************************************)
Absent == [t |-> "absent", v |-> 0]       \* the key is not in the mapping

\* a mapping with the given keys, leaving out those whose value is Absent
RECURSIVE MapOf(_)
MapOf(pairs) ==
    IF pairs = <<>> THEN <<>>
    ELSE IF Head(pairs)[2] = Absent THEN MapOf(Tail(pairs))
    ELSE (Head(pairs)[1] :> Head(pairs)[2]) @@ MapOf(Tail(pairs))

NameUDashN  == <<"u","-","n">>      \* like user-name
NameUUnderN == <<"u","_","n">>      \* like user_name
NameUCamelN == <<"u","N">>          \* like userName
NameUN      == <<"u","n">>          \* like username
NameF       == <<"f">>              \* like file
FieldNames  == {NameUDashN, NameUUnderN, NameUCamelN, NameUN, NameF, <<>>}

MaxFields == 3

\* how many arguments, flags and persistent flags a document declares
FieldSplits ==
    {k \in (0..MaxFields) \X (0..MaxFields) \X (0..MaxFields) :
        k[1] + k[2] + k[3] <= MaxFields}

TitleT   == <<"T">>
CmdName  == <<"c">>
ParsePath == Slash(DirD, LeafG)

\* `family` and `given` record how the document was put together; the parser
\* reads `text`, `yamlOk` and `root` only: `text` is the content with "y"
\* standing for the metadata, `yamlOk` whether yaml.Unmarshal accepts the
\* metadata and `root` what it yields
Frontmatter == Delimiter \o <<"\n","y","\n">> \o Delimiter \o <<"\n">>
Document(family, given, title, command) ==
    [text |-> Frontmatter, yamlOk |-> TRUE, family |-> family, given |-> given,
     root |-> MapOf(<< <<"title", title>>, <<"command", command>> >>)]

\* a document declaring the named arguments (bare-string form), flags and
\* persistent flags, nothing else set
NamesDoc(a, f, p) ==
    Document("names", [a |-> a, f |-> f, p |-> p], YStr(TitleT),
        YMap(MapOf(<<
          <<"name", YStr(CmdName)>>,
          <<"arguments", YList([i \in 1..Len(a) |-> YStr(a[i])])>>,
          <<"flags", YList([i \in 1..Len(f) |-> YMap(MapOf(<< <<"name", YStr(f[i])>> >>))])>>,
          <<"persistent_flags",
            YList([i \in 1..Len(p) |-> YMap(MapOf(<< <<"name", YStr(p[i])>> >>))])>> >>)))

TypeValues ==
    {Absent, YStr("string"), YStr("bool"), YStr("int"), YStr("stringArray"),
     YStr("float"), YStr(""), YInt(5)}

StrA == <<"a">>
StrB == <<"b">>
Str7 == <<"7">>

DefaultValues ==
    {Absent, Nil, YStr(StrA), YStr(<<"z">>), YStr(Str7), YInt(7), YFloat(7, 1),
     YFloat(7, 2), YBool(TRUE), YList(<<>>), YList(<<YStr(StrA)>>),
     YList(<<YStr(StrA), YInt(7)>>), YMap(<<>>)}

EnumValues ==
    {Absent, YList(<<>>), YList(<<YStr(StrA), YStr(StrB)>>), YList(<<YInt(7)>>),
     YList(<<YStr(StrA), YStr(<<>>)>>), YStr(StrA)}

FlagKeys == {"flags", "persistent_flags"}

\* a document with one flag, local or persistent, of the given type, default
\* and enum, and one object-form argument of the given type (none when the
\* argument type is Nil)
TypesDoc(key, type, default, enum, argType) ==
    Document("types",
        [key |-> key, type |-> type, default |-> default, enum |-> enum,
         argType |-> argType],
        YStr(TitleT),
        YMap(MapOf(<<
          <<"name", YStr(CmdName)>>,
          <<"arguments",
            IF argType = Nil THEN Absent
            ELSE YList(<<YMap(MapOf(<< <<"name", YStr(NameF)>>, <<"type", argType>> >>))>>)>>,
          <<key, YList(<<YMap(MapOf(<< <<"name", YStr(NameUN)>>, <<"type", type>>,
                                      <<"default", default>>, <<"enum", enum>> >>))>>)>> >>)))

\* documents that differ in their outer structure
StructureDocs ==
    { [text |-> <<"y","\n">>, yamlOk |-> TRUE, family |-> "structure",
       given |-> NoInfo, root |-> <<>>],
      [text |-> Delimiter \o <<"\n","y","\n">>, yamlOk |-> TRUE, family |-> "structure",
       given |-> NoInfo, root |-> <<>>],
      [text |-> Frontmatter, yamlOk |-> FALSE, family |-> "structure",
       given |-> NoInfo, root |-> <<>>],
      Document("structure", NoInfo, YStr(TitleT), Absent),
      Document("structure", NoInfo, YStr(TitleT), YStr(CmdName)),
      Document("structure", NoInfo, YStr(TitleT), YMap(<<>>)),
      Document("structure", NoInfo, YStr(TitleT), YMap(MapOf(<< <<"name", YStr(<<>>)>> >>))),
      Document("structure", NoInfo, YStr(TitleT), YMap(MapOf(<< <<"name", YInt(5)>> >>))),
      Document("structure", NoInfo, YStr(TitleT),
               YMap(MapOf(<< <<"name", YStr(<<>>)>>, <<"arguments", YInt(5)>> >>))),
      Document("structure", NoInfo, YStr(TitleT),
               YMap(MapOf(<< <<"flags", YList(<<YInt(5)>>)>> >>))),
      Document("structure", NoInfo, YStr(TitleT),
               YMap(MapOf(<< <<"name", YStr(CmdName)>>, <<"arguments", YInt(5)>> >>))),
      Document("structure", NoInfo, YStr(TitleT),
               YMap(MapOf(<< <<"name", YStr(CmdName)>>,
                             <<"arguments", YMap(MapOf(<< <<"name", YStr(NameF)>> >>))>> >>))),
      Document("structure", NoInfo, Absent, YMap(MapOf(<< <<"name", YStr(CmdName)>> >>))),
      Document("structure", NoInfo, YInt(5), YMap(MapOf(<< <<"name", YStr(CmdName)>> >>))),
      Document("structure", NoInfo, YStr(TitleT), YMap(MapOf(<< <<"name", YStr(CmdName)>> >>))) }

\* documents whose flags or persistent_flags value is not an array of
\* mappings: a scalar, a mapping, or an array holding a scalar
MalformedFlagValues ==
    { YStr(NameF), YInt(5), YMap(MapOf(<< <<"name", YStr(NameF)>> >>)),
      YList(<<YStr(NameF)>>),
      YList(<<YMap(MapOf(<< <<"name", YStr(NameF)>> >>)), YInt(5)>>) }
MalformedFlagDocs ==
    { Document("structure", NoInfo, YStr(TitleT),
               YMap(MapOf(<< <<"name", YStr(CmdName)>>, <<key, value>> >>))) :
        key \in FlagKeys, value \in MalformedFlagValues }

\* every content of up to MaxText characters over a delimiter character, a
\* metadata character and a blank, with metadata that names a command
MaxText == 7
TextAlphabet == {"-", "y", " "}
TextDocs ==
    { [text |-> t, yamlOk |-> TRUE, family |-> "text", given |-> NoInfo,
       root |-> MapOf(<< <<"title", YStr(TitleT)>>,
                         <<"command", YMap(MapOf(<< <<"name", YStr(CmdName)>> >>))>> >>)] :
        t \in UNION {[1..n -> TextAlphabet] : n \in 0..MaxText} }

(***************************************************************************)
(* Parser.ParseDirectory                                                   *)
(***************************************************************************)
\* a binary root file found in any directory
isBinaryRootAnywhere(c, path) ==
    /\ c.BinaryName # <<>>
    /\ Base(path) = c.BinaryName \o MdExt

\* ParseDirectory: dir == "." && BinaryName != "" && filename == BinaryName+".md"
isBinaryRoot(c, path) ==
    /\ Dir(path) = <<".">>
    /\ c.BinaryName # <<>>
    /\ Base(path) = c.BinaryName \o MdExt

\* ParseDirectory: dir != "." and IsIndexFile(filename, filepath.Base(dir))
isIndexOfDir(c, path) ==
    /\ Dir(path) # <<".">>
    /\ IsIndexFile(c, Base(path), Base(Dir(path)))

\* the command path taken to be the whole directory path
indexCommandPathWhole(path) == Dir(path)

\* ParseDirectory: cmd.CommandPath = dirName for an index file
indexCommandPath(path) == Base(Dir(path))

\* no pattern file left out
isSkippedPatternNever(c, path) == FALSE

\* ParseDirectory: index.md and _index.md below the root that the convention
\* does not select are left out unread
isSkippedPattern(c, path) ==
    /\ ~isBinaryRoot(c, path)
    /\ ~isIndexOfDir(c, path)
    /\ Base(path) \in {UIndexMd, IndexMd}
    /\ Dir(path) # <<".">>

\* the callback fs.WalkDir runs on the files in `order`, from the i-th on
RECURSIVE walkFiles(_, _, _, _, _)

\* the callback on the .md file order[i] once it is parsed: the command is
\* marked and appended, or the error ends the walk
walkParsed(c, files, order, i, commands, path, parsed) ==
    IF parsed.err # Nil
    THEN [commands |-> <<>>,
          err |-> Wrap(parsed.err,
                       IF isBinaryRoot(c, path) THEN "parsing binary root command"
                       ELSE IF isIndexOfDir(c, path) THEN "parsing root command"
                       ELSE "parsing")]
    ELSE IF parsed.cmd = Nil
    THEN walkFiles(c, files, order, i + 1, commands)
    ELSE walkFiles(c, files, order, i + 1,
             Append(commands,
                 IF isBinaryRoot(c, path)
                 THEN [parsed.cmd EXCEPT !.IsRootCommand = TRUE, !.CommandPath = <<>>]
                 ELSE IF isIndexOfDir(c, path)
                 THEN [parsed.cmd EXCEPT !.IsRootCommand = TRUE,
                                         !.CommandPath = indexCommandPath(path)]
                 ELSE parsed.cmd))

walkFiles(c, files, order, i, commands) ==
    IF i > Len(order) THEN [commands |-> commands, err |-> Nil]
    ELSE IF ~HasSuffix(order[i], MdExt)
    THEN walkFiles(c, files, order, i + 1, commands)
    ELSE IF isSkippedPattern(c, order[i])
    THEN walkFiles(c, files, order, i + 1, commands)
    ELSE walkParsed(c, files, order, i, commands, order[i],
                    ParseContent(files[order[i]].doc, order[i]))

\* what ParseDirectory makes of the result r of fs.WalkDir
walkReturned(r) ==
    IF r.err # Nil
    THEN [commands |-> <<>>, err |-> Wrap(r.err, "walking directory")]
    ELSE r

\* ParseDirectory passing over the files that fail
ParseDirectorySkipFailures(c, files) ==
    LET good == {p \in DOMAIN files : ParseContent(files[p].doc, p).err = Nil}
    IN walkFiles(c, [p \in good |-> files[p]], WalkOrder(good), 1, <<>>)

\* Parser.ParseDirectory over the tree `files` (path -> file)
ParseDirectory(c, files) ==
    walkReturned(walkFiles(c, files, WalkOrder(DOMAIN files), 1, <<>>))

(***************************************************************************)
(* Generator                                                               *)
(***************************************************************************)
\* every output file put directly into the output directory
getOutputFilenameFlat(c, cmd) ==
    LET base == Base(cmd.FilePath)
        nameWithoutExt == SubSeq(base, 1, Len(base) - Len(Ext(base)))
    IN Join(<<c.OutputDir, nameWithoutExt \o c.GeneratedFileSuffix>>)

\* Generator.getOutputFilename
getOutputFilename(c, cmd) ==
    LET dir  == Dir(cmd.FilePath)
        base == Base(cmd.FilePath)
        nameWithoutExt == SubSeq(base, 1, Len(base) - Len(Ext(base)))
        filename == nameWithoutExt \o c.GeneratedFileSuffix
    IN IF dir = <<".">> THEN Join(<<c.OutputDir, filename>>)
       ELSE Join(<<c.OutputDir, dir, filename>>)

\* Generator.getSourceFilePath
getSourceFilePath(c, cmd) == Join(<<c.InputDir, cmd.FilePath>>)

\* groupCommandsByFile keyed by the directory of the output file
groupCommandsByDirectory(c, commands) ==
    LET names == {Dir(getOutputFilename(c, commands[i])) : i \in 1..Len(commands)}
    IN [f \in names |->
          SelectSeq(commands, LAMBDA cmd : Dir(getOutputFilename(c, cmd)) = f)]

\* Generator.groupCommandsByFile: output file -> its commands, in order
groupCommandsByFile(c, commands) ==
    LET names == {getOutputFilename(c, commands[i]) : i \in 1..Len(commands)}
    IN [f \in names |->
          SelectSeq(commands, LAMBDA cmd : getOutputFilename(c, cmd) = f)]

\* os.Stat: "error" for a path whose stat fails for a reason other than
\* absence, "missing" for a path that names no file, else the file's mtime.
\* fs is [src, out, faults, inputDir]; source files live under inputDir.
Stat(fs, path) ==
    IF [op |-> "stat", path |-> path] \in fs.faults
    THEN [state |-> "error", mtime |-> 0]
    ELSE IF path \in DOMAIN fs.out
    THEN [state |-> "found", mtime |-> fs.out[path].mtime]
    ELSE IF \E p \in DOMAIN fs.src : Join(<<fs.inputDir, p>>) = path
    THEN [state |-> "found",
          mtime |-> fs.src[CHOOSE p \in DOMAIN fs.src :
                              Join(<<fs.inputDir, p>>) = path].mtime]
    ELSE [state |-> "missing", mtime |-> 0]

\* the oracle as it was before machine-suffixed outputs were exempted:
\* timestamps decide for every output
shouldRegenerateFileNoSuffixRule(c, force, fs, sourceFile, outputFile) ==
    LET outputInfo == Stat(fs, outputFile)
        sourceInfo == Stat(fs, sourceFile)
    IN IF force THEN [should |-> TRUE, err |-> Nil]
       ELSE IF outputInfo.state = "missing" THEN [should |-> TRUE, err |-> Nil]
       ELSE IF outputInfo.state = "error"
       THEN [should |-> FALSE, err |-> Err("checking output file", outputFile, NoInfo)]
       ELSE IF sourceInfo.state # "found"
       THEN [should |-> FALSE, err |-> Err("checking source file", sourceFile, NoInfo)]
       ELSE [should |-> sourceInfo.mtime > outputInfo.mtime, err |-> Nil]

\* the oracle regenerating also when source and output carry the same time
shouldRegenerateFileNotBefore(c, force, fs, sourceFile, outputFile) ==
    LET outputInfo == Stat(fs, outputFile)
        sourceInfo == Stat(fs, sourceFile)
    IN IF force THEN [should |-> TRUE, err |-> Nil]
       ELSE IF HasSuffix(outputFile, c.GeneratedFileSuffix)
       THEN [should |-> TRUE, err |-> Nil]
       ELSE IF outputInfo.state = "missing" THEN [should |-> TRUE, err |-> Nil]
       ELSE IF outputInfo.state = "error"
       THEN [should |-> FALSE, err |-> Err("checking output file", outputFile, NoInfo)]
       ELSE IF sourceInfo.state # "found"
       THEN [should |-> FALSE, err |-> Err("checking source file", sourceFile, NoInfo)]
       ELSE [should |-> sourceInfo.mtime >= outputInfo.mtime, err |-> Nil]

\* Generator.shouldRegenerateFile
shouldRegenerateFile(c, force, fs, sourceFile, outputFile) ==
    LET outputInfo == Stat(fs, outputFile)
        sourceInfo == Stat(fs, sourceFile)
    IN IF force THEN [should |-> TRUE, err |-> Nil]
       ELSE IF HasSuffix(outputFile, c.GeneratedFileSuffix)
       THEN [should |-> TRUE, err |-> Nil]
       ELSE IF outputInfo.state = "missing" THEN [should |-> TRUE, err |-> Nil]
       ELSE IF outputInfo.state = "error"
       THEN [should |-> FALSE, err |-> Err("checking output file", outputFile, NoInfo)]
       ELSE IF sourceInfo.state # "found"
       THEN [should |-> FALSE, err |-> Err("checking source file", sourceFile, NoInfo)]
       ELSE [should |-> sourceInfo.mtime > outputInfo.mtime, err |-> Nil]

\* the inner loop of Generate finding that every output file needs
\* regeneration, whatever the oracle answers
needsRegenerationAlways(c, force, fs, filename, cmds, j) ==
    [should |-> TRUE, err |-> Nil]

\* the inner loop of Generate over the commands of one output file: the
\* first command that needs regeneration, or the first error, ends it
RECURSIVE needsRegeneration(_, _, _, _, _, _)
needsRegeneration(c, force, fs, filename, cmds, j) ==
    IF j > Len(cmds) THEN [should |-> FALSE, err |-> Nil]
    ELSE LET r == shouldRegenerateFile(c, force, fs,
                      getSourceFilePath(c, cmds[j]), filename)
         IN IF r.err # Nil
            THEN [should |-> FALSE, err |-> Wrap(r.err, "checking if needs regeneration")]
            ELSE IF r.should THEN r
            ELSE needsRegeneration(c, force, fs, filename, cmds, j + 1)

\* Generator.generateFileContent: the package clause and the commands
\* rendered, and the Config after GetPackageName ran
generateFileContent(c, cmds) ==
    LET pkg == IF Len(cmds) > 0 THEN GetPackageName(c, cmds[1].FilePath)
               ELSE [name |-> c.Package, config |-> c]
    IN [content |-> [Package |-> pkg.name,
                     Commands |-> cmds],
        config |-> pkg.config]

\* the loop of Generate putting the output tree back as it was before the
\* call when a group fails
RECURSIVE generateGroupsRollback(_, _, _, _, _, _, _)
generateGroupsRollback(force, now, fs, groups, order, i, st) ==
    IF i > Len(order) THEN st
    ELSE
    LET filename == order[i]
        cmds     == groups[filename]
        cur      == [fs EXCEPT !.out = st.out]
        need     == needsRegeneration(st.cfg, force, cur, filename, cmds, 1)
        gf       == generateFileContent(st.cfg, cmds)
    IN IF need.err # Nil THEN [st EXCEPT !.err = need.err, !.out = fs.out]
       ELSE IF ~need.should
       THEN generateGroupsRollback(force, now, fs, groups, order, i + 1,
                [st EXCEPT !.skippedCount = @ + 1, !.skipped = @ \cup {filename}])
       ELSE IF [op |-> "mkdir", path |-> Dir(filename)] \in fs.faults
       THEN [st EXCEPT !.err = Wrap(Err("creating output directory", filename, NoInfo),
                                    "generating"),
                       !.out = fs.out]
       ELSE IF [op |-> "write", path |-> filename] \in fs.faults
       THEN [st EXCEPT !.cfg = gf.config,
                       !.err = Wrap(Err("writing file", filename, NoInfo), "generating"),
                       !.out = fs.out]
       ELSE generateGroupsRollback(force, now, fs, groups, order, i + 1,
                [st EXCEPT !.cfg = gf.config,
                           !.written = @ \cup {filename},
                           !.out = (filename :> [mtime |-> now, content |-> gf.content])
                                   @@ st.out])

\* the loop of Generate leaving skipped files out of the count
RECURSIVE generateGroupsUncounted(_, _, _, _, _, _, _)
generateGroupsUncounted(force, now, fs, groups, order, i, st) ==
    IF i > Len(order) THEN st
    ELSE
    LET filename == order[i]
        cmds     == groups[filename]
        cur      == [fs EXCEPT !.out = st.out]
        need     == needsRegeneration(st.cfg, force, cur, filename, cmds, 1)
        gf       == generateFileContent(st.cfg, cmds)
    IN IF need.err # Nil THEN [st EXCEPT !.err = need.err]
       ELSE IF ~need.should
       THEN generateGroupsUncounted(force, now, fs, groups, order, i + 1,
                [st EXCEPT !.skipped = @ \cup {filename}])
       ELSE IF [op |-> "mkdir", path |-> Dir(filename)] \in fs.faults
       THEN [st EXCEPT !.err = Wrap(Err("creating output directory", filename, NoInfo),
                                    "generating")]
       ELSE IF [op |-> "write", path |-> filename] \in fs.faults
       THEN [st EXCEPT !.cfg = gf.config,
                       !.err = Wrap(Err("writing file", filename, NoInfo), "generating")]
       ELSE generateGroupsUncounted(force, now, fs, groups, order, i + 1,
                [st EXCEPT !.cfg = gf.config,
                           !.written = @ \cup {filename},
                           !.out = (filename :> [mtime |-> now, content |-> gf.content])
                                   @@ st.out])

\* the loop of Generate over the output files, taken in the order `order`
\* (Go leaves the iteration order of the map open). st carries the output
\* tree, the Config, skippedCount and what was written and skipped so far.
RECURSIVE generateGroups(_, _, _, _, _, _, _)
generateGroups(force, now, fs, groups, order, i, st) ==
    IF i > Len(order) THEN st
    ELSE
    LET filename == order[i]
        cmds     == groups[filename]
        cur      == [fs EXCEPT !.out = st.out]
        need     == needsRegeneration(st.cfg, force, cur, filename, cmds, 1)
        gf       == generateFileContent(st.cfg, cmds)
    IN IF need.err # Nil THEN [st EXCEPT !.err = need.err]
       ELSE IF ~need.should
       THEN generateGroups(force, now, fs, groups, order, i + 1,
                [st EXCEPT !.skippedCount = @ + 1, !.skipped = @ \cup {filename}])
       ELSE IF [op |-> "mkdir", path |-> Dir(filename)] \in fs.faults
       THEN [st EXCEPT !.err = Wrap(Err("creating output directory", filename, NoInfo),
                                    "generating")]
       ELSE IF [op |-> "write", path |-> filename] \in fs.faults
       THEN [st EXCEPT !.cfg = gf.config,
                       !.err = Wrap(Err("writing file", filename, NoInfo), "generating")]
       ELSE generateGroups(force, now, fs, groups, order, i + 1,
                [st EXCEPT !.cfg = gf.config,
                           !.written = @ \cup {filename},
                           !.out = (filename :> [mtime |-> now, content |-> gf.content])
                                   @@ st.out])

Perms(S) ==
    {f \in [1..Cardinality(S) -> S] : \A i, j \in 1..Cardinality(S) : i # j => f[i] # f[j]}

IndexFormats      == {"directory", "index", "_index", "hugo", ""}
PackageStrategies == {"single", "directory", "path", "", "flat"}

MaxPkgCalls == 2

NoDoc == [kind |-> "none"]

IdleParser == /\ parseIn = NoDoc
              /\ parseOut = NoDoc
              /\ walkOut = NoDoc
IdleNaming == pkgCalls = {} /\ outNames = {} /\ fnCalls = {}
IdleGen    == /\ srcFiles = <<>>
              /\ outFiles = <<>>
              /\ clock = 0
              /\ gen = [commands |-> <<>>, force |-> FALSE, skippedFiles |-> 0]
              /\ lastRun = NoDoc
              /\ lastShould = NoDoc
              /\ fsFaults = {}

InitNaming ==
    /\ \E f \in IndexFormats, s \in PackageStrategies :
          cfg = [DefaultConfig EXCEPT !.IndexFormat = f, !.PackageStrategy = s]
    /\ pkgCalls = {}
    /\ outNames = {}
    /\ fnCalls = {}
    /\ IdleParser
    /\ IdleGen

\* one call c.GetPackageName(p)
CallGetPackageName ==
    \E p \in SourcePaths :
        LET r == GetPackageName(cfg, p)
            call == [path |-> p, strategy |-> cfg.PackageStrategy,
                     format |-> cfg.IndexFormat, name |-> r.name]
        IN /\ Cardinality(pkgCalls \cup {call}) <= MaxPkgCalls
           /\ pkgCalls' = pkgCalls \cup {call}
           /\ cfg' = r.config
           /\ UNCHANGED <<outNames, fnCalls, parserVars, genVars>>

NextNaming == CallGetPackageName

SpecNaming == InitNaming /\ [][NextNaming]_vars

InitParser ==
    /\ cfg = DefaultConfig
    /\ \/ \E k \in FieldSplits :
            \E a \in [1..k[1] -> FieldNames], f \in [1..k[2] -> FieldNames],
               p \in [1..k[3] -> FieldNames] : parseIn = NamesDoc(a, f, p)
       \/ \E key \in FlagKeys, type \in TypeValues, default \in DefaultValues,
             enum \in EnumValues, argType \in TypeValues \cup {Nil} :
            parseIn = TypesDoc(key, type, default, enum, argType)
       \/ parseIn \in StructureDocs
       \/ parseIn \in MalformedFlagDocs
       \/ parseIn \in TextDocs
    /\ parseOut = NoDoc
    /\ walkOut = NoDoc
    /\ IdleNaming
    /\ IdleGen

\* one call p.ParseContent(content, path)
CallParseContent ==
    /\ parseOut = NoDoc
    /\ parseOut' = ParseContent(parseIn, ParsePath)
    /\ UNCHANGED <<cfg, parseIn, walkOut, namingVars, genVars>>

NextParser == CallParseContent

SpecParser == InitParser /\ [][NextParser]_vars

(***************************************************************************)
(* The generator over a small input tree                                   *)
(***************************************************************************)
ValidDoc   == Document("structure", NoInfo, YStr(TitleT),
                       YMap(MapOf(<< <<"name", YStr(CmdName)>> >>)))
UntitledDoc == Document("structure", NoInfo, Absent,
                        YMap(MapOf(<< <<"name", YStr(CmdName)>> >>)))

GenPaths   == {LeafG, Slash(DirD, LeafG)}
\* the source trees: d/g.md alone, or next to a g.md that parses or does not
GenTrees   ==
    {(Slash(DirD, LeafG) :> ValidDoc)} \cup
    {(Slash(DirD, LeafG) :> ValidDoc) @@ (LeafG :> doc) :
        doc \in {ValidDoc, UntitledDoc}}

\* filepath.Join cleans the trailing separator of this suffix away, so the
\* output paths it yields do not end with the suffix
SlashSuffix == <<"_","g","/">>
GenSuffixes == {DefaultSuffix, SlashSuffix}
\* a file the user keeps in the output tree; under SlashSuffix it is the
\* output path of d/g.md
HandFile   == Join(<<DefaultOut, DirD, <<"g","_","g">> >>)
HandContent == [Package |-> <<"h">>, Commands |-> <<>>]

MaxClock == 2

\* the output paths Generate can produce for GenPaths under Config c
OutputsOf(c) == {getOutputFilename(c, [FilePath |-> p]) : p \in GenPaths}

FileSystem == [src |-> srcFiles, out |-> outFiles, faults |-> fsFaults,
               inputDir |-> cfg.InputDir]

NoRun == [ran |-> FALSE, err |-> Nil, written |-> {}, skipped |-> {},
          groups |-> {}, existed |-> {}, fresh |-> {}, identical |-> {},
          force |-> FALSE,
          repeat |-> FALSE, changed |-> TRUE, skippedFiles |-> 0]

Init ==
    /\ \E suffix \in GenSuffixes, strategy \in {"directory", ""} :
          cfg = [DefaultConfig EXCEPT !.GeneratedFileSuffix = suffix,
                                      !.PackageStrategy = strategy]
    /\ \E tree \in GenTrees :
          srcFiles = [p \in DOMAIN tree |-> [mtime |-> 0, doc |-> tree[p]]]
    /\ outFiles = <<>>
    /\ clock = 0
    /\ gen = [commands |-> <<>>, force |-> FALSE, skippedFiles |-> 0]
    /\ lastRun = NoRun
    /\ lastShould = NoDoc
    /\ \/ fsFaults = {}
       \/ \E op \in {"stat", "write"} :
             fsFaults = {[op |-> op,
                          path |-> getOutputFilename(cfg, [FilePath |-> Slash(DirD, LeafG)])]}
       \/ /\ cfg.GeneratedFileSuffix = DefaultSuffix
          /\ fsFaults = {[op |-> "mkdir",
                          path |-> Dir(getOutputFilename(cfg, [FilePath |-> Slash(DirD, LeafG)]))]}
    /\ IdleNaming
    /\ IdleParser

\* time passes
Tick ==
    /\ clock < MaxClock
    /\ clock' = clock + 1
    /\ UNCHANGED <<cfg, srcFiles, outFiles, gen, lastRun, lastShould, fsFaults,
                   namingVars, parserVars>>

\* the user saves a source file
TouchSource ==
    \E p \in DOMAIN srcFiles :
        /\ srcFiles[p].mtime # clock
        /\ srcFiles' = [srcFiles EXCEPT ![p].mtime = clock]
        /\ lastRun' = [lastRun EXCEPT !.changed = TRUE]
        /\ UNCHANGED <<cfg, outFiles, clock, gen, lastShould, fsFaults,
                       namingVars, parserVars>>

\* the user rewrites the source file g.md, and what was a document that
\* parses is now one that does not
EditSource ==
    /\ fsFaults = {}
    /\ LeafG \in DOMAIN srcFiles
    /\ srcFiles[LeafG].doc = ValidDoc
    /\ srcFiles' = [srcFiles EXCEPT ![LeafG] = [mtime |-> clock, doc |-> UntitledDoc]]
    /\ lastRun' = [lastRun EXCEPT !.changed = TRUE]
    /\ UNCHANGED <<cfg, outFiles, clock, gen, lastShould, fsFaults,
                   namingVars, parserVars>>

\* the user writes a file of their own into the output tree
WriteByHand ==
    /\ IF HandFile \in DOMAIN outFiles
       THEN outFiles[HandFile] # [mtime |-> clock, content |-> HandContent]
       ELSE TRUE
    /\ outFiles' = (HandFile :> [mtime |-> clock, content |-> HandContent]) @@ outFiles
    /\ lastRun' = [lastRun EXCEPT !.changed = TRUE]
    /\ UNCHANGED <<cfg, srcFiles, clock, gen, lastShould, fsFaults,
                   namingVars, parserVars>>

\* Generator.SetForceRegeneration
SetForceRegeneration ==
    \E force \in BOOLEAN :
        /\ force # gen.force
        /\ gen' = [gen EXCEPT !.force = force]
        /\ UNCHANGED <<cfg, srcFiles, outFiles, clock, lastRun, lastShould,
                       fsFaults, namingVars, parserVars>>

\* Generator.Generate
Generate ==
    \E parsed \in {ParseDirectory(cfg, srcFiles)} :
    LET repeat == lastRun.ran /\ lastRun.err = Nil /\ ~lastRun.changed
        run    == [NoRun EXCEPT !.ran = TRUE, !.force = gen.force,
                                !.repeat = repeat, !.changed = FALSE,
                                !.skippedFiles = gen.skippedFiles]
    IN IF parsed.err # Nil
       THEN /\ lastRun' = [run EXCEPT !.err = Wrap(parsed.err, "parsing directory")]
            /\ UNCHANGED <<cfg, srcFiles, outFiles, clock, gen, lastShould,
                           fsFaults, namingVars, parserVars>>
       ELSE \E groups \in {groupCommandsByFile(cfg, parsed.commands)} :
            \E order \in Perms(DOMAIN groups) :
            \E st \in {generateGroups(gen.force, clock, FileSystem, groups, order, 1,
                          [out |-> outFiles, cfg |-> cfg, skippedCount |-> 0,
                           written |-> {}, skipped |-> {}, err |-> Nil])} :
                 LET stat == IF st.err = Nil THEN st.skippedCount ELSE gen.skippedFiles
                 IN /\ gen' = [gen EXCEPT !.commands = parsed.commands,
                                          !.skippedFiles = stat]
                    /\ cfg' = st.cfg
                    /\ outFiles' = st.out
                    /\ lastRun' =
                         [run EXCEPT !.err = st.err, !.written = st.written,
                              !.skipped = st.skipped,
                              !.groups = DOMAIN groups,
                              !.existed = DOMAIN groups \cap DOMAIN outFiles,
                              !.fresh =
                                 {f \in DOMAIN groups \cap DOMAIN outFiles :
                                     \A i \in 1..Len(groups[f]) :
                                        srcFiles[groups[f][i].FilePath].mtime
                                           <= outFiles[f].mtime},
                              !.identical =
                                 {f \in DOMAIN groups \cap DOMAIN outFiles :
                                     st.out[f].content = outFiles[f].content},
                              !.skippedFiles = stat]
                    /\ UNCHANGED <<srcFiles, clock, lastShould, fsFaults,
                                   namingVars, parserVars>>

Next ==
    \/ Tick
    \/ TouchSource
    \/ EditSource
    \/ WriteByHand
    \/ SetForceRegeneration
    \/ Generate

Spec == Init /\ [][Next]_vars

(***************************************************************************)
(* Generator.shouldRegenerateFile on its own, over every combination of    *)
(* force, suffix, and the two files being absent, present or unreadable    *)
(***************************************************************************)
OracleSource == Slash(DirD, LeafG)
OracleTimes  == 0..MaxClock

InitOracle ==
    /\ \E suffix \in GenSuffixes :
          cfg = [DefaultConfig EXCEPT !.GeneratedFileSuffix = suffix]
    /\ \/ srcFiles = <<>>
       \/ \E t \in OracleTimes :
             srcFiles = (OracleSource :> [mtime |-> t, doc |-> ValidDoc])
    /\ \/ outFiles = <<>>
       \/ \E t \in OracleTimes, f \in OutputsOf(cfg) \cup {HandFile} :
             outFiles = (f :> [mtime |-> t, content |-> HandContent])
    /\ clock = 0
    /\ \E force \in BOOLEAN :
          gen = [commands |-> <<>>, force |-> force, skippedFiles |-> 0]
    /\ lastRun = NoDoc
    /\ lastShould = NoDoc
    /\ \/ fsFaults = {}
       \/ \E path \in OutputsOf(cfg) \cup {HandFile, Join(<<cfg.InputDir, OracleSource>>)} :
             fsFaults = {[op |-> "stat", path |-> path]}
    /\ IdleNaming
    /\ IdleParser

\* one call of Generator.shouldRegenerateFile
CallShouldRegenerateFile ==
    \E outputFile \in OutputsOf(cfg) \cup {HandFile} :
        LET sourceFile == Join(<<cfg.InputDir, OracleSource>>)
            r == shouldRegenerateFile(cfg, gen.force, FileSystem, sourceFile, outputFile)
        IN /\ lastShould' = [kind |-> "call", force |-> gen.force,
                             sourceFile |-> sourceFile, outputFile |-> outputFile,
                             sourceInfo |-> Stat(FileSystem, sourceFile),
                             outputInfo |-> Stat(FileSystem, outputFile),
                             should |-> r.should, err |-> r.err]
           /\ UNCHANGED <<cfg, srcFiles, outFiles, clock, gen, lastRun, fsFaults,
                          namingVars, parserVars>>

NextOracle == CallShouldRegenerateFile

SpecOracle == InitOracle /\ [][NextOracle]_vars

(***************************************************************************)
(* Parser.ParseDirectory, and Generate after it, over every small tree     *)
(***************************************************************************)
IndexName == <<"i","n","d","e","x">>
WalkBinaryNames == {<<>>, <<"g">>, IndexName}
NoCommandDoc == [text |-> <<"y","\n">>, yamlOk |-> TRUE, family |-> "structure",
                 given |-> NoInfo, root |-> <<>>]
WalkDocs  == {ValidDoc, NoCommandDoc, UntitledDoc}
WalkPaths ==
    { LeafG, IndexMd, UIndexMd,
      Slash(DirD, LeafG), Slash(DirD, <<"d">> \o MdExt),
      Slash(DirD, IndexMd), Slash(DirD, UIndexMd),
      Slash(DirDS, <<"s","-","x">> \o MdExt),
      Slash(DirD, <<"t",".","t","x","t">>) }

MaxFiles == 2

WalkTrees ==
    UNION { [present -> WalkDocs] :
              present \in {S \in SUBSET WalkPaths : S # {} /\ Cardinality(S) <= MaxFiles} }

InitWalk ==
    /\ \E name \in WalkBinaryNames, format \in IndexFormats :
          cfg = [DefaultConfig EXCEPT !.BinaryName = name, !.IndexFormat = format]
    /\ \E tree \in WalkTrees :
          srcFiles = [p \in DOMAIN tree |-> [mtime |-> 0, doc |-> tree[p]]]
    /\ outFiles = <<>>
    /\ clock = 0
    /\ gen = [commands |-> <<>>, force |-> FALSE, skippedFiles |-> 0]
    /\ lastRun = NoRun
    /\ lastShould = NoDoc
    /\ fsFaults = {}
    /\ parseIn = NoDoc
    /\ parseOut = NoDoc
    /\ walkOut = NoDoc
    /\ IdleNaming

\* one call p.ParseDirectory(fsys)
CallParseDirectory ==
    /\ walkOut = NoDoc
    /\ \E r \in {ParseDirectory(cfg, srcFiles)} :
          walkOut' = [kind |-> "call", commands |-> r.commands, err |-> r.err]
    /\ UNCHANGED <<cfg, parseIn, parseOut, namingVars, genVars>>

\* one call g.Generate(ctx, fsys) of a generator that has not run yet
GenerateOnce ==
    /\ ~lastRun.ran
    /\ Generate

NextWalk ==
    \/ CallParseDirectory
    \/ GenerateOnce

SpecWalk == InitWalk /\ [][NextWalk]_vars

(***************************************************************************)
(* Parser.parseArguments on its own, over every short list of entries      *)
(***************************************************************************)
ArgMapFull ==
    YMap(MapOf(<< <<"name", YStr(NameF)>>, <<"description", YStr(StrA)>>,
                  <<"required", YBool(TRUE)>>, <<"type", YStr("int")>> >>))
ArgEntries ==
    { YStr(NameF), YStr(NameUN),
      YMap(MapOf(<< <<"name", YStr(NameUN)>> >>)),
      ArgMapFull,
      YMap(MapOf(<< <<"description", YStr(StrA)>> >>)),
      YMap(MapOf(<< <<"name", YInt(5)>> >>)),
      YInt(5) }

MaxArgs == 3

ArgValues ==
    {YList(l) : l \in UNION {[1..n -> ArgEntries] : n \in 0..MaxArgs}}
    \cup {YStr(NameF), YInt(5), ArgMapFull, Nil}

InitArguments ==
    /\ cfg = DefaultConfig
    /\ \E raw \in ArgValues : parseIn = [family |-> "arguments", raw |-> raw]
    /\ parseOut = NoDoc
    /\ walkOut = NoDoc
    /\ IdleNaming
    /\ IdleGen

\* one call p.parseArguments(rawArgs, filePath)
CallParseArguments ==
    /\ parseOut = NoDoc
    /\ parseOut' = parseArguments(parseIn.raw, ParsePath)
    /\ UNCHANGED <<cfg, parseIn, walkOut, namingVars, genVars>>

NextArguments == CallParseArguments

SpecArguments == InitArguments /\ [][NextArguments]_vars

(***************************************************************************)
(* Generator.getOutputFilename on its own                                  *)
(***************************************************************************)
OutputSourcePaths == SourcePaths \cup {Slash(DirD, <<"a",".","b">> \o MdExt)}
OutputDirs == {DefaultOut, Slash(DefaultOut, <<"o">>)}

MaxNameCalls == 2

InitOutput ==
    /\ \E suffix \in GenSuffixes, dir \in OutputDirs :
          cfg = [DefaultConfig EXCEPT !.GeneratedFileSuffix = suffix, !.OutputDir = dir]
    /\ pkgCalls = {}
    /\ outNames = {}
    /\ fnCalls = {}
    /\ IdleParser
    /\ IdleGen

\* one call g.getOutputFilename(cmd)
CallGetOutputFilename ==
    \E p \in OutputSourcePaths :
        LET call == [path |-> p, name |-> getOutputFilename(cfg, [FilePath |-> p])]
        IN /\ Cardinality(outNames \cup {call}) <= MaxNameCalls
           /\ outNames' = outNames \cup {call}
           /\ UNCHANGED <<cfg, pkgCalls, fnCalls, parserVars, genVars>>

NextOutput == CallGetOutputFilename

SpecOutput == InitOutput /\ [][NextOutput]_vars

(***************************************************************************)
(* pascalCase on its own, over names of a few characters                   *)
(***************************************************************************)
\* the characters names are made of, each as its bytes: two letters, the
\* three separators and a letter that takes two bytes
CaseCharacters == {<<"f">>, <<"N">>, <<"-">>, <<"_">>, <<" ">>, ELower}

MaxNameLen == 4

\* the names of up to n characters, as sequences of characters
RECURSIVE NamesUpTo(_)
NamesUpTo(n) ==
    IF n = 0 THEN {<<>>}
    ELSE NamesUpTo(n - 1) \cup
         {Append(w, ch) : w \in NamesUpTo(n - 1), ch \in CaseCharacters}

\* the names the source's tests and comments give
FileDashName  == << <<"f">>, <<"i">>, <<"l">>, <<"e">>, <<"-">>,
                    <<"n">>, <<"a">>, <<"m">>, <<"e">> >>
FileUnderName == [FileDashName EXCEPT ![5] = <<"_">>]
FileCamelName == << <<"f">>, <<"i">>, <<"l">>, <<"e">>,
                    <<"N">>, <<"a">>, <<"m">>, <<"e">> >>
CaseNames == NamesUpTo(MaxNameLen) \cup {FileDashName, FileUnderName, FileCamelName}

\* the bytes of a sequence of characters
RECURSIVE Bytes(_)
Bytes(chars) == IF chars = <<>> THEN <<>> ELSE Head(chars) \o Bytes(Tail(chars))

InitPascal ==
    /\ cfg = DefaultConfig
    /\ pkgCalls = {}
    /\ outNames = {}
    /\ fnCalls = {}
    /\ IdleParser
    /\ IdleGen

\* one call pascalCase(s)
CallPascalCase ==
    \E chars \in CaseNames :
        /\ fnCalls = {}
        /\ fnCalls' = {[chars |-> chars, out |-> pascalCase(Bytes(chars))]}
        /\ UNCHANGED <<cfg, pkgCalls, outNames, parserVars, genVars>>

NextPascal == CallPascalCase

SpecPascal == InitPascal /\ [][NextPascal]_vars

(***************************************************************************)
(* MergeWithFlags on its own: a Config from a file or the defaults, and    *)
(* the five flags each unset, at its default or at a value of its own      *)
(***************************************************************************)
BinaryG    == <<"g">>
FlagValue  == <<"x">>         \* what a flag carries when the user sets it
FileValue  == <<"y">>         \* what the config file carries when it sets a key

\* the Configs the merge starts from
MergeConfigs ==
    [BinaryName          : {<<>>, BinaryG},
     InputDir            : {DefaultIn, FileValue},
     OutputDir           : {DefaultOut, FileValue},
     Package             : {DefaultPkg, FileValue},
     GeneratedFileSuffix : {DefaultSuffix},
     IndexFormat         : {"directory", "hugo"},
     PackageStrategy     : {"directory"},
     Validation          : {[Strict |-> TRUE], [Strict |-> FALSE]}]

InitMerge ==
    /\ cfg \in MergeConfigs
    /\ pkgCalls = {}
    /\ outNames = {}
    /\ fnCalls = {}
    /\ IdleParser
    /\ IdleGen

\* one call MergeWithFlags(config, binaryName, input, output, pkg, suffix)
CallMergeWithFlags ==
    \E binaryName \in {<<>>, FlagValue},
       input  \in {<<>>, DefaultIn, FlagValue},
       output \in {<<>>, DefaultOut, FlagValue},
       pkg    \in {<<>>, DefaultPkg, FlagValue},
       suffix \in {<<>>, DefaultSuffix, FlagValue} :
        /\ fnCalls = {}
        /\ fnCalls' = {[config |-> cfg, binaryName |-> binaryName, input |-> input,
                        output |-> output, pkg |-> pkg, suffix |-> suffix,
                        merged |-> MergeWithFlags(cfg, binaryName, input, output,
                                                  pkg, suffix)]}
        /\ UNCHANGED <<cfg, pkgCalls, outNames, parserVars, genVars>>

NextMerge == CallMergeWithFlags

SpecMerge == InitMerge /\ [][NextMerge]_vars

(***************************************************************************)
(* Config.IsIndexFile on its own                                           *)
(***************************************************************************)
\* the four conventions, the empty one and two the code does not know
IndexConventions == IndexFormats \cup {"Index", "flat"}
IndexDirNames  == {DirD, <<"s","-","x">>, <<"i","n","d","e","x">>,
                   <<"_","i","n","d","e","x">>}
IndexFileNames == {IndexMd, UIndexMd, LeafG, LeafT,
                   <<"I","n","d","e","x">> \o MdExt,
                   <<"i","n","d","e","x">>,
                   <<"i","n","d","e","x",".","t","x","t">>}
                  \cup {d \o MdExt : d \in IndexDirNames}
                  \cup IndexDirNames

InitIndex ==
    /\ \E f \in IndexConventions : cfg = [DefaultConfig EXCEPT !.IndexFormat = f]
    /\ pkgCalls = {}
    /\ outNames = {}
    /\ fnCalls = {}
    /\ IdleParser
    /\ IdleGen

\* one call c.IsIndexFile(filename, dirName)
CallIsIndexFile ==
    \E filename \in IndexFileNames, dirName \in IndexDirNames :
        /\ fnCalls = {}
        /\ fnCalls' = {[filename |-> filename, dirName |-> dirName,
                        result |-> IsIndexFile(cfg, filename, dirName)]}
        /\ UNCHANGED <<cfg, pkgCalls, outNames, parserVars, genVars>>

NextIndex == CallIsIndexFile

SpecIndex == InitIndex /\ [][NextIndex]_vars

(***************************************************************************)
(* Generator.groupCommandsByFile on the commands of one ParseDirectory     *)
(* call, under suffixes that filepath.Join leaves alone, shortens or       *)
(* resolves                                                                *)
(***************************************************************************)
\* filepath.Join resolves the .. of this suffix against the file's own name
DotDotSuffix  == <<"/",".",".","/","g",".","g","o">>
GroupSuffixes == GenSuffixes \cup {DotDotSuffix}
GroupPaths    == {LeafG, LeafT, Slash(DirD, LeafG), Slash(DirD, LeafT),
                  Slash(DirD, <<"d">> \o MdExt)}

MaxGroupFiles == 3

InitGroup ==
    /\ \E suffix \in GroupSuffixes, strategy \in {"directory", "path"} :
          cfg = [DefaultConfig EXCEPT !.GeneratedFileSuffix = suffix,
                                      !.PackageStrategy = strategy]
    /\ \E present \in SUBSET GroupPaths :
          /\ present # {} /\ Cardinality(present) <= MaxGroupFiles
          /\ srcFiles = [p \in present |-> [mtime |-> 0, doc |-> ValidDoc]]
    /\ gen = [commands |-> ParseDirectory(cfg, srcFiles).commands,
              force |-> FALSE, skippedFiles |-> 0]
    /\ outFiles = <<>>
    /\ clock = 0
    /\ lastRun = NoRun
    /\ lastShould = NoDoc
    /\ fsFaults = {}
    /\ IdleParser
    /\ IdleNaming

\* one call g.groupCommandsByFile(), g.commands being what ParseDirectory
\* returned
CallGroupCommandsByFile ==
    /\ fnCalls = {}
    /\ fnCalls' = {[groups |-> groupCommandsByFile(cfg, gen.commands)]}
    /\ UNCHANGED <<cfg, pkgCalls, outNames, parserVars, genVars>>

NextGroup == CallGroupCommandsByFile

SpecGroup == InitGroup /\ [][NextGroup]_vars

----------------------------------------------------------------------------
\* C1: two source paths in the same directory get the same namespace from
\* GetPackageName under the directory strategy and under the single
\* strategy, whatever the index convention, index files included.
C1_NamespaceConsistency ==
    \A a \in pkgCalls, b \in pkgCalls :
        ( /\ Dir(a.path) = Dir(b.path)
          /\ a.strategy = b.strategy
          /\ a.strategy \in {"directory", "single"} )
        => a.name = b.name

\* an index file and a leaf of one nested directory were both resolved
\* under the directory strategy
C1_Witness ==
    \E a \in pkgCalls, b \in pkgCalls :
        /\ a.path = Slash(DirDS, UIndexMd)
        /\ b.path = Slash(DirDS, LeafG)
        /\ a.strategy = "directory" /\ b.strategy = "directory"
        /\ a.format = "_index"
        /\ a.name = <<"d","_","s","_","x">>
        /\ b.name = a.name

----------------------------------------------------------------------------
(***************************************************************************)
(* Properties of ParseContent                                              *)
(***************************************************************************)
Parsed    == parseOut # NoDoc
Succeeded == Parsed /\ parseOut.cmd # Nil
Failed    == Parsed /\ parseOut.err # Nil

Range(f) == {f[i] : i \in DOMAIN f}

\* the fields a "names" document declares, in declaration order
DeclaredLocal(doc) ==
    [i \in 1..Len(doc.given.a) |-> [kind |-> "argument", name |-> doc.given.a[i]]]
    \o [i \in 1..Len(doc.given.f) |-> [kind |-> "flag", name |-> doc.given.f[i]]]
DeclaredAll(doc) ==
    DeclaredLocal(doc)
    \o [i \in 1..Len(doc.given.p) |-> [kind |-> "persistentFlag", name |-> doc.given.p[i]]]

\* positions of declared fields whose identifier an earlier field already has
LaterColliding(d) ==
    {j \in 1..Len(d) : \E i \in 1..(j - 1) : pascalCase(d[i].name) = pascalCase(d[j].name)}
Least(S) == CHOOSE j \in S : \A k \in S : j <= k

\* all fields of a returned command, in the order arguments, flags,
\* persistent flags
ResultFlags(cmd) == cmd.Flags \o cmd.PersistentFlags
ResultNames(cmd) ==
    [i \in 1..Len(cmd.Arguments) |-> cmd.Arguments[i].Name]
    \o [i \in 1..Len(ResultFlags(cmd)) |-> ResultFlags(cmd)[i].Name]

\* C5: ParseContent fails whenever two of a command's arguments and flags
\* derive the same PascalCase identifier; when nothing declared before the
\* later field of the first colliding pair is at fault, the error names the
\* file, the identifier, and the name and kind of the later field and of
\* the earlier one it conflicts with (arguments before flags); when no two
\* identifiers coincide and the names are otherwise in order, it succeeds.
C5_CollisionDetection ==
    (Parsed /\ parseIn.family = "names") =>
        LET d    == DeclaredLocal(parseIn)
            all  == DeclaredAll(parseIn)
            hits == LaterColliding(d)
        IN /\ hits # {} => (parseOut.err # Nil /\ parseOut.cmd = Nil)
           /\ (hits # {} /\ \A k \in 1..Least(hits) : d[k].name # <<>>) =>
                 LET j == Least(hits)
                     i == CHOOSE i \in 1..(j - 1) :
                              pascalCase(d[i].name) = pascalCase(d[j].name)
                 IN /\ parseOut.err.kind = "duplicate field name (PascalCase)"
                    /\ parseOut.err.file = ParsePath
                    /\ parseOut.err.info.ident = pascalCase(d[j].name)
                    /\ parseOut.err.info.name = d[j].name
                    /\ parseOut.err.info.fieldType = d[j].kind
                    /\ parseOut.err.info.otherName = d[i].name
                    /\ parseOut.err.info.otherType = d[i].kind
           /\ ( /\ LaterColliding(all) = {}
                /\ \A k \in 1..Len(all) : all[k].name # <<>> )
              => (parseOut.err = Nil /\ parseOut.cmd # Nil)

\* user_name as argument and user-name as flag: rejected, the flag reported
\* as conflicting with the argument on the identifier both derive
C5_Witness ==
    /\ Parsed
    /\ parseIn.family = "names"
    /\ parseIn.given.a = <<NameUUnderN>>
    /\ parseIn.given.f = <<NameUDashN>>
    /\ parseIn.given.p = <<>>
    /\ parseOut.err # Nil
    /\ parseOut.err.kind = "duplicate field name (PascalCase)"
    /\ parseOut.err.info.ident = <<"U","N">>
    /\ parseOut.err.info.fieldType = "flag"
    /\ parseOut.err.info.otherType = "argument"

\* C6: in every command ParseContent returns, the PascalCase identifiers of
\* all argument, flag and persistent-flag names are pairwise distinct.
C6_AllIdentifiersDistinct ==
    Succeeded =>
        LET names == ResultNames(parseOut.cmd)
        IN \A i \in 1..Len(names), j \in 1..Len(names) :
              i < j => pascalCase(names[i]) # pascalCase(names[j])

\* the flag a "types" document declares, as the parser will see its type:
\* an absent or non-string `type` leaves the initial string type in place
GivenType(doc) ==
    IF doc.given.type # Absent /\ IsStr(doc.given.type)
    THEN doc.given.type.v ELSE TypeString
GivenHasDefault(doc) == doc.given.default # Absent /\ doc.given.default # Nil
GivenEnum(doc) ==
    IF doc.given.enum # Absent /\ IsList(doc.given.enum)
    THEN [i \in 1..Len(doc.given.enum.v) |-> SprintV(doc.given.enum.v[i])]
    ELSE <<>>

AllStrings(list) == \A i \in 1..Len(list.v) : IsStr(list.v[i])
WholeNumber(x) ==
    \/ x.t = "int"
    \/ x.t = "float64" /\ x.v[1] % x.v[2] = 0

\* the shapes of default the data model allows for each flag type
ShapeMatches(type, default) ==
    CASE type = "string"      -> IsStr(default)
      [] type = "bool"        -> default.t = "bool"
      [] type = "int"         -> WholeNumber(default)
      [] type = "stringArray" -> IsList(default) /\ AllStrings(default)
      [] OTHER                -> FALSE

\* C7 as stated: in a returned command every flag of one of the four types
\* that has a default has one of the matching shape (string, boolean, whole
\* number, list of strings), and a "types" document whose flag has a default
\* of any other shape is rejected.
C7_DefaultShapeMatchesType ==
    /\ Succeeded =>
          \A fl \in Range(ResultFlags(parseOut.cmd)) :
              (fl.Default # Nil /\ fl.Type \in ValidFlagTypes)
                  => ShapeMatches(fl.Type, fl.Default)
    /\ ( /\ Parsed /\ parseIn.family = "types"
         /\ GivenHasDefault(parseIn)
         /\ GivenType(parseIn) \in ValidFlagTypes
         /\ ~ShapeMatches(GivenType(parseIn), parseIn.given.default) )
       => Failed

\* what validateDefaultValueType lets through: as ShapeMatches, and for an
\* int flag also a string holding a decimal integer; the empty type, which
\* only a persistent flag can keep, is checked as string
AcceptedShape(type, default) ==
    CASE type \in {"string", ""} -> IsStr(default)
      [] type = "bool"        -> default.t = "bool"
      [] type = "int"         -> WholeNumber(default)
                                 \/ (IsStr(default) /\ AtoiOk(default.v))
      [] type = "stringArray" -> IsList(default) /\ AllStrings(default)
      [] OTHER                -> FALSE

\* C7 amended: in a returned command every flag that has a default has a
\* string for type string (and for the empty type), a boolean for bool, a
\* whole number or a string that strconv.Atoi accepts for int, and a list of
\* strings for stringArray; a default of any other shape is rejected.
C7_DefaultShapeAccepted ==
    /\ Succeeded =>
          \A fl \in Range(ResultFlags(parseOut.cmd)) :
              fl.Default # Nil => AcceptedShape(fl.Type, fl.Default)
    /\ ( /\ Parsed /\ parseIn.family = "types"
         /\ GivenHasDefault(parseIn)
         /\ ~AcceptedShape(GivenType(parseIn), parseIn.given.default) )
       => Failed

\* an int flag whose default is the string "7" was accepted, and so was one
\* whose default is 7.0, while 3.5 and "a" were not
C7_Witness ==
    /\ Succeeded
    /\ parseIn.family = "types"
    /\ parseIn.given.key = "flags"
    /\ parseIn.given.type = YStr("int")
    /\ parseIn.given.default = YStr(Str7)
    /\ parseOut.cmd.Flags[1].Type = TypeInt
    /\ parseOut.cmd.Flags[1].Default = YStr(Str7)
    /\ ParseContent(TypesDoc("flags", YStr("int"), YFloat(7, 1), Absent, Nil),
                    ParsePath).err = Nil
    /\ ParseContent(TypesDoc("flags", YStr("int"), YFloat(7, 2), Absent, Nil),
                    ParsePath).err # Nil
    /\ ParseContent(TypesDoc("flags", YStr("int"), YStr(StrA), Absent, Nil),
                    ParsePath).err # Nil

\* C8: in every command ParseContent returns, a flag with a non-empty enum
\* has type string; a document whose flag has a non-empty enum and type
\* bool, int or stringArray is rejected.
C8_EnumOnlyOnString ==
    /\ Succeeded =>
          \A fl \in Range(ResultFlags(parseOut.cmd)) :
              Len(fl.Enum) > 0 => fl.Type = TypeString
    /\ ( /\ Parsed /\ parseIn.family = "types"
         /\ Len(GivenEnum(parseIn)) > 0
         /\ GivenType(parseIn) \in {TypeBool, TypeInt, TypeStringArray} )
       => Failed

\* C9: in every command ParseContent returns, a flag with a non-empty enum
\* and a default has a default that is one of the enum values; a document
\* whose flag has a default outside its enum is rejected, and when the flag
\* is in order apart from that (it is accepted without the default and
\* without the enum) the error names the file, the flag, the default and the
\* whole enum list.
C9_DefaultInEnum ==
    /\ Succeeded =>
          \A fl \in Range(ResultFlags(parseOut.cmd)) :
              (Len(fl.Enum) > 0 /\ fl.Default # Nil)
                  => (IsStr(fl.Default) /\ fl.Default.v \in Range(fl.Enum))
    /\ ( /\ Parsed /\ parseIn.family = "types"
         /\ Len(GivenEnum(parseIn)) > 0
         /\ GivenHasDefault(parseIn)
         /\ ~( /\ IsStr(parseIn.given.default)
               /\ parseIn.given.default.v \in Range(GivenEnum(parseIn)) ) )
       => /\ Failed
          /\ LET g == parseIn.given
                 noDefault == TypesDoc(g.key, g.type, Absent, g.enum, g.argType)
                 noEnum    == TypesDoc(g.key, g.type, g.default, Absent, g.argType)
             IN ( /\ ParseContent(noDefault, ParsePath).err = Nil
                  /\ ParseContent(noEnum, ParsePath).err = Nil )
                => /\ parseOut.err.kind = "default value must be one of the enum values"
                   /\ parseOut.err.file = ParsePath
                   /\ parseOut.err.info.flag = NameUN
                   /\ parseOut.err.info.default = g.default.v
                   /\ parseOut.err.info.enum = GivenEnum(parseIn)

\* a persistent string flag with enum [a, b] and default z was rejected with
\* the error that names z and both enum values
C9_Witness ==
    /\ Failed
    /\ parseIn.family = "types"
    /\ parseIn.given.key = "persistent_flags"
    /\ parseIn.given.type = YStr("string")
    /\ parseIn.given.default = YStr(<<"z">>)
    /\ parseIn.given.enum = YList(<<YStr(StrA), YStr(StrB)>>)
    /\ parseOut.err.kind = "default value must be one of the enum values"
    /\ parseOut.err.info.default = <<"z">>
    /\ parseOut.err.info.enum = <<StrA, StrB>>

\* C10: in every command ParseContent returns, every argument type is one of
\* string, int, bool and every flag type, local or persistent, is one of
\* string, bool, int, stringArray; a document that declares any other type
\* for its flag or its argument is rejected.
C10_LegalTypes ==
    /\ Succeeded =>
          /\ \A a \in Range(parseOut.cmd.Arguments) : a.Type \in ValidArgTypes
          /\ \A fl \in Range(ResultFlags(parseOut.cmd)) : fl.Type \in ValidFlagTypes
    /\ ( /\ Parsed /\ parseIn.family = "types"
         /\ \/ ( /\ parseIn.given.type # Absent
                 /\ IsStr(parseIn.given.type)
                 /\ parseIn.given.type.v \notin ValidFlagTypes \cup {""} )
            \/ ( /\ parseIn.given.argType \notin {Absent, Nil}
                 /\ IsStr(parseIn.given.argType)
                 /\ parseIn.given.argType.v \notin ValidArgTypes \cup {""} ) )
       => Failed

----------------------------------------------------------------------------
\* C2: when no stat call fails, shouldRegenerateFile returns true exactly
\* when force is set, or the output ends with the generated-file suffix, or
\* the output file does not exist, or the source was modified strictly
\* after the output; equal timestamps or a newer output, with an existing
\* non-suffixed output and force unset, give false.
OracleCalled == lastShould.kind = "call"
OutputSuffixed == HasSuffix(lastShould.outputFile, cfg.GeneratedFileSuffix)
SourceNewer ==
    /\ lastShould.sourceInfo.state = "found"
    /\ lastShould.outputInfo.state = "found"
    /\ lastShould.sourceInfo.mtime > lastShould.outputInfo.mtime

----------------------------------------------------------------------------
\* C3: in every Generate run, whatever force and the timestamps are, every
\* output file whose path ends with the generated-file suffix is rewritten,
\* never skipped; a run fails only where parsing, a stat, a directory creation or a
\* write fails,
\* never because the output is already there.
Suffixed(f) == HasSuffix(f, cfg.GeneratedFileSuffix)
ParseFailed == \E i \in 1..Len(lastRun.err.wrap) : lastRun.err.wrap[i] = "parsing directory"
FaultHit ==
    \/ /\ lastRun.err.kind = "writing file"
       /\ [op |-> "write", path |-> lastRun.err.file] \in fsFaults
    \/ /\ lastRun.err.kind = "checking output file"
       /\ [op |-> "stat", path |-> lastRun.err.file] \in fsFaults
    \/ /\ lastRun.err.kind = "creating output directory"
       /\ [op |-> "mkdir", path |-> Dir(lastRun.err.file)] \in fsFaults

----------------------------------------------------------------------------
\* C4: on a second Generate run with no source change and force unset,
\* every group whose output exists and is not older than its sources is
\* skipped instead of rewritten, the output files are byte-identical to the
\* first run, and skipped_files is nonzero and equals the number of
\* unchanged groups whose output is not machine-suffixed.
SecondRun ==
    /\ lastRun.ran
    /\ lastRun.repeat
    /\ ~lastRun.force
    /\ lastRun.err = Nil
Unsuffixed == {f \in lastRun.groups : ~Suffixed(f)}

----------------------------------------------------------------------------
\* what the ParseDirectory claims speak of
Walked     == walkOut.kind = "call"
WalkedOk   == Walked /\ walkOut.err = Nil
Returned(p) == {i \in 1..Len(walkOut.commands) : walkOut.commands[i].FilePath = p}
\* the file carries valid command metadata
Carries(p) == ParseContent(srcFiles[p].doc, p).cmd # Nil
Breaks(p)  == ParseContent(srcFiles[p].doc, p).err # Nil
\* the file is <BinaryName>.md at the root of the tree
BinaryRootFile(p) == cfg.BinaryName # <<>> /\ p = cfg.BinaryName \o MdExt
InSubdirectory(p) == \E i \in 1..Len(p) : p[i] = "/"
\* the name of the innermost directory of p
InnermostDir(p) == LET segs == SplitSlash(p) IN segs[Len(segs) - 1]
FileName(p) == LET segs == SplitSlash(p) IN segs[Len(segs)]
\* the file is the index file of its directory under the convention
ConventionFile(p) ==
    InSubdirectory(p) /\ IsIndexFile(cfg, FileName(p), InnermostDir(p))

\* C11: a command is marked binary root (IsRootCommand, empty CommandPath)
\* exactly when its file is <BinaryName>.md at the tree root with BinaryName
\* non-empty; that name inside a subdirectory is never the binary root, and
\* a root-level index.md or _index.md that is not <BinaryName>.md comes back
\* as a plain leaf.
C11_BinaryRoot ==
    WalkedOk =>
        /\ \A i \in 1..Len(walkOut.commands) :
              LET cmd == walkOut.commands[i]
              IN (cmd.IsRootCommand /\ cmd.CommandPath = <<>>)
                    <=> BinaryRootFile(cmd.FilePath)
        /\ \A p \in DOMAIN srcFiles :
              (BinaryRootFile(p) /\ Carries(p)) => Returned(p) # {}
        /\ \A p \in DOMAIN srcFiles \cap {IndexMd, UIndexMd} :
              (~BinaryRootFile(p) /\ Carries(p)) =>
                 /\ Returned(p) # {}
                 /\ \A i \in Returned(p) : ~walkOut.commands[i].IsRootCommand

\* C11 (witness): the tree holds g.md at the root and d/g.md, BinaryName is
\* g, and only the first came back as the binary root
C11_Witness ==
    /\ WalkedOk
    /\ cfg.BinaryName = <<"g">>
    /\ \E i \in Returned(LeafG) : walkOut.commands[i].IsRootCommand
    /\ \E i \in Returned(Slash(DirD, LeafG)) : ~walkOut.commands[i].IsRootCommand

\* C12: every file in a subdirectory whose name matches the index convention
\* for that directory and that carries command metadata is returned with
\* IsRootCommand set and CommandPath the name of its innermost directory.
C12_IndexFiles ==
    WalkedOk =>
        \A p \in DOMAIN srcFiles :
            (ConventionFile(p) /\ Carries(p)) =>
                /\ Returned(p) # {}
                /\ \A i \in Returned(p) :
                      /\ walkOut.commands[i].IsRootCommand
                      /\ walkOut.commands[i].CommandPath = InnermostDir(p)

\* C12 (witness): d/s-x/s-x.md came back as the root command of s-x
C12_Witness ==
    /\ WalkedOk
    /\ \E i \in Returned(Slash(DirDS, <<"s","-","x">> \o MdExt)) :
          /\ walkOut.commands[i].IsRootCommand
          /\ walkOut.commands[i].CommandPath = <<"s","-","x">>

\* C13: every .md file that is neither the binary root file nor the index
\* file of its directory, and carries valid command metadata, is in the
\* result with IsRootCommand unset, whatever its name: index.md and
\* _index.md in a subdirectory whose convention does not select them too.
LeafFile(p) == HasSuffix(p, MdExt) /\ ~BinaryRootFile(p) /\ ~ConventionFile(p)

C13_EveryOtherFileIsLeaf ==
    WalkedOk =>
        \A p \in DOMAIN srcFiles :
            (LeafFile(p) /\ Carries(p)) =>
                /\ Returned(p) # {}
                /\ \A i \in Returned(p) : ~walkOut.commands[i].IsRootCommand

\* C13 (as the code has it): such a file is a leaf command unless it is an
\* index.md or _index.md inside a subdirectory; those are left out without
\* being read, so they yield no command and no error.
PatternFile(p) == InSubdirectory(p) /\ FileName(p) \in {IndexMd, UIndexMd}

C13_LeafUnlessPatternFile ==
    /\ WalkedOk =>
          \A p \in DOMAIN srcFiles :
              /\ (LeafFile(p) /\ ~PatternFile(p) /\ Carries(p)) =>
                    /\ Returned(p) # {}
                    /\ \A i \in Returned(p) : ~walkOut.commands[i].IsRootCommand
              /\ (LeafFile(p) /\ PatternFile(p)) => Returned(p) = {}
    /\ (Walked /\ walkOut.err # Nil) =>
          \E p \in DOMAIN srcFiles :
              Breaks(p) /\ HasSuffix(p, MdExt) /\ ~(LeafFile(p) /\ PatternFile(p))

\* C13 (witness): under the _index convention d/index.md carries a command
\* and is left out, while d/g.md came back as a leaf
C13_Witness ==
    /\ WalkedOk
    /\ cfg.IndexFormat = "_index"
    /\ Slash(DirD, IndexMd) \in DOMAIN srcFiles
    /\ Carries(Slash(DirD, IndexMd))
    /\ Returned(Slash(DirD, IndexMd)) = {}
    /\ \E i \in Returned(Slash(DirD, LeafG)) : ~walkOut.commands[i].IsRootCommand

\* C14: if parsing or validating any file fails, ParseDirectory returns an
\* error that wraps the originating one and no commands at all, and Generate
\* then writes no output file.
Read(p) == HasSuffix(p, MdExt) /\ ~(LeafFile(p) /\ PatternFile(p))
SomeFileBreaks == \E p \in DOMAIN srcFiles : Read(p) /\ Breaks(p)
WrapsOrigin(e) ==
    \E p \in DOMAIN srcFiles :
        LET origin == ParseContent(srcFiles[p].doc, p).err
        IN /\ Read(p) /\ Breaks(p)
           /\ e.kind = origin.kind
           /\ Len(e.wrap) > Len(origin.wrap)
           /\ SubSeq(e.wrap, 1, Len(origin.wrap)) = origin.wrap

C14_FailureReturnsNothing ==
    SomeFileBreaks =>
        /\ Walked =>
              /\ walkOut.err # Nil
              /\ walkOut.commands = <<>>
              /\ WrapsOrigin(walkOut.err)
              /\ walkOut.err.wrap[Len(walkOut.err.wrap)] = "walking directory"
        /\ lastRun.ran =>
              /\ lastRun.err # Nil
              /\ WrapsOrigin(lastRun.err)
              /\ lastRun.written = {}
              /\ outFiles = <<>>
              /\ gen.commands = <<>>

\* C14 (witness): d/g.md is valid and walked first, g.md after it fails;
\* ParseDirectory was called and Generate ran, and nothing was written
C14_Witness ==
    /\ Walked
    /\ lastRun.ran
    /\ Slash(DirD, LeafG) \in DOMAIN srcFiles
    /\ LeafG \in DOMAIN srcFiles
    /\ Carries(Slash(DirD, LeafG))
    /\ Breaks(LeafG)
    /\ walkOut.err # Nil
    /\ walkOut.commands = <<>>
    /\ outFiles = <<>>

----------------------------------------------------------------------------
\* what the ParseContent outcome claims speak of
NilNil == parseOut.cmd = Nil /\ parseOut.err = Nil
BeginsWithDelimiter ==
    Len(parseIn.text) >= 3 /\ \A i \in 1..3 : parseIn.text[i] = "-"
SecondDelimiter ==
    \E i \in 4..(Len(parseIn.text) - 2) : \A j \in 0..2 : parseIn.text[i + j] = "-"
MetadataText ==
    LET i == CHOOSE i \in 4..(Len(parseIn.text) - 2) :
                /\ \A j \in 0..2 : parseIn.text[i + j] = "-"
                /\ \A k \in 4..(i - 1) : \E j \in 0..2 : parseIn.text[k + j] # "-"
    IN SubSeq(parseIn.text, 4, i - 1)
BlankMetadata == \A i \in 1..Len(MetadataText) : MetadataText[i] \in WhiteSpace
Metadata == IF BlankMetadata THEN <<>> ELSE parseIn.root
MetadataReadable == BlankMetadata \/ parseIn.yamlOk
NoCommandEntry == ~Has(Metadata, "command")
CommandBlock == Metadata["command"]
NameAbsentOrEmpty ==
    /\ Has(Metadata, "command")
    /\ IsMap(CommandBlock)
    /\ \/ ~Has(CommandBlock.v, "name")
       \/ IsStr(CommandBlock.v["name"]) /\ CommandBlock.v["name"].v = <<>>
NameNotAString ==
    /\ Has(Metadata, "command")
    /\ IsMap(CommandBlock)
    /\ Has(CommandBlock.v, "name")
    /\ ~IsStr(CommandBlock.v["name"])

----------------------------------------------------------------------------
\* what the parseArguments claim speaks of
RawList   == parseIn.raw.v
AllStringEntries == \A i \in 1..Len(RawList) : IsStr(RawList[i])
AllMappingEntries == \A i \in 1..Len(RawList) : IsMap(RawList[i])
NamedMapping(e) == IsMap(e) /\ Has(e.v, "name") /\ IsStr(e.v["name"])
MixedEntries ==
    /\ \A i \in 1..Len(RawList) : IsStr(RawList[i]) \/ IsMap(RawList[i])
    /\ \E i \in 1..Len(RawList) : IsStr(RawList[i])
    /\ \E i \in 1..Len(RawList) : IsMap(RawList[i])
SameShape(a, b) == (IsStr(a) /\ IsStr(b)) \/ (IsMap(a) /\ IsMap(b))
\* position, counted from zero, of the first entry shaped unlike the first
FirstOddEntry ==
    (CHOOSE i \in 1..Len(RawList) :
        /\ ~SameShape(RawList[i], RawList[1])
        /\ \A j \in 1..(i - 1) : SameShape(RawList[j], RawList[1])) - 1
\* position, counted from zero, of the first mapping without a string name
NamelessBefore(k) == {i \in 1..k : IsMap(RawList[i]) /\ ~NamedMapping(RawList[i])}
Declared(e, key, type, default) ==
    IF Has(e.v, key) /\ e.v[key].t = type THEN e.v[key].v ELSE default
NormalizedStrings ==
    /\ parseOut.err = Nil
    /\ Len(parseOut.args) = Len(RawList)
    /\ \A i \in 1..Len(RawList) :
          /\ parseOut.args[i].Name = RawList[i].v
          /\ parseOut.args[i].Required
          /\ parseOut.args[i].Type = "string"
NormalizedMappings ==
    /\ parseOut.err = Nil
    /\ Len(parseOut.args) = Len(RawList)
    /\ \A i \in 1..Len(RawList) :
          /\ parseOut.args[i].Name = RawList[i].v["name"].v
          /\ parseOut.args[i].Required = Declared(RawList[i], "required", "bool", FALSE)
          /\ parseOut.args[i].Type = Declared(RawList[i], "type", "string", "string")
          /\ Has(RawList[i].v, "description") =>
                parseOut.args[i].Description = RawList[i].v["description"].v

\* C16: parseArguments turns a list of bare strings into one Argument per
\* string, required and of type string, and a list of mappings into one
\* Argument per mapping with its declared fields, type defaulting to string
\* and required to false, both in order; a list mixing strings and mappings
\* is an error naming the file and the index of the first element whose
\* shape differs from the first element's.
C16_ArgumentShapes ==
    (Parsed /\ IsList(parseIn.raw)) =>
        /\ AllStringEntries => NormalizedStrings
        /\ (AllMappingEntries /\ \A i \in 1..Len(RawList) : NamedMapping(RawList[i]))
              => NormalizedMappings
        /\ MixedEntries =>
              /\ parseOut.err # Nil
              /\ parseOut.err.file = ParsePath
              /\ parseOut.err.info.index = FirstOddEntry

\* C16 (as the code has it): the same, but when the list begins with
\* mappings and one of them, before the first string, has no string name,
\* the error names the index of that mapping.
C16_ArgumentShapesFirstFault ==
    (Parsed /\ IsList(parseIn.raw)) =>
        /\ AllStringEntries => NormalizedStrings
        /\ (AllMappingEntries /\ \A i \in 1..Len(RawList) : NamedMapping(RawList[i]))
              => NormalizedMappings
        /\ MixedEntries =>
              /\ parseOut.err # Nil
              /\ parseOut.err.file = ParsePath
              /\ parseOut.err.info.index =
                    IF NamelessBefore(FirstOddEntry) = {} THEN FirstOddEntry
                    ELSE (CHOOSE i \in NamelessBefore(FirstOddEntry) :
                             \A j \in NamelessBefore(FirstOddEntry) : i <= j) - 1

\* C16 (witness): two mappings and then a string; the error names index 2
C16_Witness ==
    /\ Parsed
    /\ IsList(parseIn.raw)
    /\ Len(RawList) = 3
    /\ NamedMapping(RawList[1])
    /\ NamedMapping(RawList[2])
    /\ IsStr(RawList[3])
    /\ parseOut.err # Nil
    /\ parseOut.err.info.index = 2

----------------------------------------------------------------------------
\* C17: a metadata block in which arguments, flags or persistent_flags is
\* present but is not an array, or in which an entry of flags or
\* persistent_flags is not a mapping, makes ParseContent return an error;
\* such a value is never silently ignored.
NamedCommand ==
    /\ BeginsWithDelimiter /\ SecondDelimiter /\ MetadataReadable
    /\ Has(Metadata, "command")
    /\ IsMap(CommandBlock)
    /\ Has(CommandBlock.v, "name")
    /\ IsStr(CommandBlock.v["name"])
    /\ CommandBlock.v["name"].v # <<>>
NotAnArray(key) == Has(CommandBlock.v, key) /\ ~IsList(CommandBlock.v[key])
HoldsNonMapping(key) ==
    /\ Has(CommandBlock.v, key)
    /\ IsList(CommandBlock.v[key])
    /\ \E i \in 1..Len(CommandBlock.v[key].v) : ~IsMap(CommandBlock.v[key].v[i])

C17_MalformedBlocksFail ==
    ( /\ Parsed
      /\ parseIn.family = "structure"
      /\ NamedCommand
      /\ \/ \E key \in {"arguments", "flags", "persistent_flags"} : NotAnArray(key)
         \/ \E key \in {"flags", "persistent_flags"} : HoldsNonMapping(key) )
    => parseOut.err # Nil

----------------------------------------------------------------------------
\* C18: getOutputFilename maps dir/name.md to OutputDir/dir/name<suffix>
\* (OutputDir/name<suffix> at the root): the relative directory path is kept
\* as it is and only the .md extension gives way to the suffix. The path is
\* that one letter for letter when the suffix holds no separator, and that
\* one as filepath.Clean writes it otherwise.
ExtensionReplaced(p) ==
    SubSeq(p, 1, Len(p) - Len(MdExt)) \o cfg.GeneratedFileSuffix
UnderOutputDir(p) == cfg.OutputDir \o <<"/">> \o ExtensionReplaced(p)

----------------------------------------------------------------------------
(***************************************************************************)
(* Properties of GetPackageName under the path and the unknown strategies  *)
(***************************************************************************)
\* what the directory strategy returns for the path of a call
UnderDirectoryStrategy(call) ==
    GetPackageName([cfg EXCEPT !.PackageStrategy = "directory"], call.path).name

\* the file of the call lies in a subdirectory and is an index file of it
\* under the configured convention
SubdirectoryIndexFile(call) ==
    /\ Dir(call.path) # <<".">>
    /\ IsIndexFile([cfg EXCEPT !.IndexFormat = call.format],
                   Base(call.path), Base(Dir(call.path)))

\* the relative path without its extension, / and - turned into _
Underscored(path) ==
    LET bare == SubSeq(path, 1, Len(path) - Len(MdExt))
    IN [i \in 1..Len(bare) |-> IF bare[i] \in {"/", "-"} THEN "_" ELSE bare[i]]

LeadsWithLetter(name) == name # <<>> /\ isLetter(name[1])

\* C19: under the path strategy an index file of a subdirectory gets the
\* namespace the directory strategy gives it, and every other file gets its
\* full relative path without extension with / and - replaced by _.
C19_PathStrategy ==
    \A call \in pkgCalls :
        call.strategy = "path" =>
            IF SubdirectoryIndexFile(call)
            THEN call.name = UnderDirectoryStrategy(call)
            ELSE call.name = Underscored(call.path)

\* C19 (amended): under the path strategy an index file of a subdirectory
\* gets the namespace the directory strategy gives it, and every other file
\* gets its full relative path without extension with / and - replaced by _,
\* with pkg_ put in front when that does not begin with a letter.
C19_PathStrategySentinel ==
    \A call \in pkgCalls :
        call.strategy = "path" =>
            IF SubdirectoryIndexFile(call)
            THEN call.name = UnderDirectoryStrategy(call)
            ELSE call.name = IF LeadsWithLetter(Underscored(call.path))
                             THEN Underscored(call.path)
                             ELSE PkgPrefix \o Underscored(call.path)

\* C19 (witness): under the path strategy and the _index convention,
\* d/s-x/_index.md was named d_s_x and d/s-x/t.md was named d_s_x_t
C19_Witness ==
    \E a \in pkgCalls, b \in pkgCalls :
        /\ a.strategy = "path" /\ b.strategy = "path"
        /\ a.format = "_index"
        /\ a.path = Slash(DirDS, UIndexMd)
        /\ a.name = <<"d","_","s","_","x">>
        /\ b.path = Slash(DirDS, LeafT)
        /\ b.name = <<"d","_","s","_","x","_","t">>

\* C20: under a strategy other than single, directory and path, the empty
\* one included, GetPackageName returns the namespace the directory
\* strategy returns for the same path.
C20_UnknownStrategyIsDirectory ==
    \A call \in pkgCalls :
        call.strategy \notin {"single", "directory", "path"}
            => call.name = UnderDirectoryStrategy(call)

\* C20 (witness): under the empty strategy d/s-x/t.md was named d_s_x, and
\* the call left the directory strategy in the configuration
C20_Witness ==
    \E call \in pkgCalls :
        /\ call.strategy = ""
        /\ call.path = Slash(DirDS, LeafT)
        /\ call.name = <<"d","_","s","_","x">>
        /\ cfg.PackageStrategy = "directory"

----------------------------------------------------------------------------
(***************************************************************************)
(* Properties of one Generate call, stated on the step it takes            *)
(***************************************************************************)
\* the step is a call of Generate (the other steps move the clock, touch a
\* source, set force or mark the tree changed)
GenerateStep ==
    /\ lastRun'.ran /\ ~lastRun'.changed
    /\ srcFiles' = srcFiles /\ clock' = clock
    /\ gen'.force = gen.force

GenerateReturnedNil == GenerateStep /\ lastRun'.err = Nil

\* the commands of the run that go to output file f
GroupOf(f) == SelectSeq(gen'.commands, LAMBDA cmd : getOutputFilename(cfg, cmd) = f)

\* the oracle answers true for at least one source file of group f, asked
\* on the file system the call started from
OracleSaysRegenerate(f) ==
    \E i \in 1..Len(GroupOf(f)) :
        shouldRegenerateFile(cfg, gen.force, FileSystem,
                             getSourceFilePath(cfg, GroupOf(f)[i]), f).should

\* C21: in a Generate run that returns without error every output group is
\* either rewritten or skipped, never both; it is rewritten exactly when the
\* oracle answers true for one of its source files and is otherwise counted
\* once in skipped_files, so rewritten groups plus skipped_files is the
\* number of groups.
C21_RewrittenOrSkipped ==
    [][GenerateReturnedNil =>
          /\ \A f \in lastRun'.groups :
                /\ (f \in lastRun'.written) # (f \in lastRun'.skipped)
                /\ (f \in lastRun'.written) <=> OracleSaysRegenerate(f)
          /\ lastRun'.written \cup lastRun'.skipped = lastRun'.groups
          /\ gen'.skippedFiles = Cardinality(lastRun'.skipped)
          /\ Cardinality(lastRun'.written) + gen'.skippedFiles
                = Cardinality(lastRun'.groups)]_vars

\* C21 (witness): a run without error over two groups rewrote one of them
\* and skipped the other
C21_Witness ==
    /\ lastRun.ran /\ lastRun.err = Nil
    /\ Cardinality(lastRun.groups) = 2
    /\ Cardinality(lastRun.written) = 1
    /\ Cardinality(lastRun.skipped) = 1
    /\ gen.skippedFiles = 1

----------------------------------------------------------------------------
(***************************************************************************)
(* Properties of pascalCase                                                *)
(***************************************************************************)
Separators == {<<"-">>, <<"_">>, <<" ">>}

\* the maximal runs of characters between separators: no run is empty
Tokens(chars) == FieldsFrom(chars, Separators, 1, <<>>)

\* one character in upper case, in lower case
UpperCharacter(ch) ==
    IF ch \in {ELower, EUpper} THEN EUpper ELSE <<UpperASCII(ch[1])>>
LowerCharacter(ch) ==
    IF ch \in {ELower, EUpper} THEN ELower ELSE <<LowerASCII(ch[1])>>

\* a token with its first character capitalised and the rest in lower case
Capitalized(token) ==
    Bytes([i \in 1..Len(token) |->
              IF i = 1 THEN UpperCharacter(token[i]) ELSE LowerCharacter(token[i])])

RECURSIVE ConcatTokens(_)
ConcatTokens(tokens) ==
    IF tokens = <<>> THEN <<>>
    ELSE Capitalized(Head(tokens)) \o ConcatTokens(Tail(tokens))

\* the name holds ASCII characters only
ASCIIName(chars) == \A i \in 1..Len(chars) : chars[i] \notin {ELower, EUpper}

\* C22: pascalCase splits its input at `-`, `_` and space only, never at a
\* change of case, capitalises the first character of each token, puts the
\* rest in lower case and concatenates; separators that lead, trail or
\* follow one another make no empty token.
C22_PascalCase ==
    \A call \in fnCalls :
        /\ \A i \in 1..Len(Tokens(call.chars)) : Tokens(call.chars)[i] # <<>>
        /\ call.out = ConcatTokens(Tokens(call.chars))

\* C22 (on ASCII names): the same, for the names whose characters are all
\* ASCII; file-name and file_name give FileName, fileName gives Filename.
C22_PascalCaseASCII ==
    \A call \in fnCalls :
        /\ ASCIIName(call.chars) => call.out = ConcatTokens(Tokens(call.chars))
        /\ call.chars \in {FileDashName, FileUnderName}
              => call.out = <<"F","i","l","e","N","a","m","e">>
        /\ call.chars = FileCamelName
              => call.out = <<"F","i","l","e","n","a","m","e">>

\* C22 (the failing case): a token whose first character takes two bytes
\* comes back with U+FFFD twice in place of that character
C22_LeadingByteLost ==
    \E call \in fnCalls :
        /\ call.chars = <<ELower, <<"f">> >>
        /\ call.out = RuneError \o RuneError \o <<"f">>

----------------------------------------------------------------------------
(***************************************************************************)
(* Properties of MergeWithFlags                                            *)
(***************************************************************************)
\* the flag is set and carries something other than the built-in default
Overrides(flag, default) == flag # <<>> /\ flag # default

----------------------------------------------------------------------------
\* C24: a configuration whose binary name is empty is rejected with an error
\* before discovery: a validate run (ParseDirectory) or a generate run
\* (Generate) started with it parses no file and writes no output.
C24_EmptyBinaryNameRejected ==
    cfg.BinaryName = <<>> =>
        /\ Walked => walkOut.err # Nil /\ walkOut.commands = <<>>
        /\ lastRun.ran => lastRun.err # Nil /\ lastRun.written = {}
        /\ gen.commands = <<>>
        /\ outFiles = <<>>

\* C24 (the failing case): with an empty binary name Generate returned nil,
\* holds the parsed commands and has written an output file
C24_GeneratedWithoutBinaryName ==
    /\ cfg.BinaryName = <<>>
    /\ lastRun.ran /\ lastRun.err = Nil
    /\ Len(gen.commands) > 0
    /\ lastRun.written # {}
    /\ DOMAIN outFiles = lastRun.written

----------------------------------------------------------------------------
\* C25: IsIndexFile(filename, dirName) is true exactly for index.md under
\* the convention index, for _index.md under _index and under hugo, and for
\* <dirName>.md or index.md under directory and under every convention the
\* code does not know, the empty one included; it is false for every other
\* file name.
C25_IsIndexFile ==
    \A call \in fnCalls :
        call.result <=>
            CASE cfg.IndexFormat = "index" -> call.filename = IndexMd
              [] cfg.IndexFormat \in {"_index", "hugo"} -> call.filename = UIndexMd
              [] OTHER -> \/ call.filename = call.dirName \o MdExt
                          \/ call.filename = IndexMd

\* C25 (witness): under a convention the code does not know, s-x.md is the
\* index file of directory s-x
C25_Witness ==
    \E call \in fnCalls :
        /\ cfg.IndexFormat = "flat"
        /\ call.dirName = <<"s","-","x">>
        /\ call.filename = <<"s","-","x">> \o MdExt
        /\ call.result

----------------------------------------------------------------------------
\* the commands ParseDirectory returned as group roots
GroupRoots == {i \in 1..Len(walkOut.commands) : walkOut.commands[i].IsRootCommand}

\* C26: under the directory convention index.md is only a fallback: where a
\* subdirectory holds both <dirBaseName>.md and index.md, only
\* <dirBaseName>.md is marked as the group root, so no two commands of the
\* result are group roots of the same directory with the same CommandPath.
C26_OneRootPerDirectory ==
    (Walked /\ cfg.IndexFormat = "directory") =>
        /\ \A i \in GroupRoots, j \in GroupRoots :
              ( /\ Dir(walkOut.commands[i].FilePath) = Dir(walkOut.commands[j].FilePath)
                /\ walkOut.commands[i].CommandPath = walkOut.commands[j].CommandPath )
              => i = j
        /\ \A i \in GroupRoots :
              ( /\ Base(walkOut.commands[i].FilePath) = IndexMd
                /\ InSubdirectory(walkOut.commands[i].FilePath) )
              => Slash(Dir(walkOut.commands[i].FilePath),
                       Base(Dir(walkOut.commands[i].FilePath)) \o MdExt)
                    \notin DOMAIN srcFiles

\* C26 (the failing case): d/d.md and d/index.md both came back as group
\* roots with CommandPath d
C26_TwoRootsOfOneDirectory ==
    /\ WalkedOk
    /\ cfg.IndexFormat = "directory"
    /\ Len(walkOut.commands) = 2
    /\ walkOut.commands[1].FilePath = Slash(DirD, <<"d">> \o MdExt)
    /\ walkOut.commands[2].FilePath = Slash(DirD, IndexMd)
    /\ \A i \in 1..2 : /\ walkOut.commands[i].IsRootCommand
                       /\ walkOut.commands[i].CommandPath = DirD

----------------------------------------------------------------------------
\* C27: under the path strategy every non-index source file gets a
\* namespace of its own: GetPackageName returns different values for any two
\* distinct non-index source paths of one input tree.
C27_OneNamespacePerFile ==
    \A a \in pkgCalls, b \in pkgCalls :
        ( /\ a.strategy = "path" /\ b.strategy = "path"
          /\ ~SubdirectoryIndexFile(a) /\ ~SubdirectoryIndexFile(b)
          /\ a.path # b.path )
        => a.name # b.name

\* C27 (the failing case): d/s-x/g.md and d-s-x/g.md both got d_s_x_g
C27_SharedNamespace ==
    \E a \in pkgCalls, b \in pkgCalls :
        /\ a.strategy = "path" /\ b.strategy = "path"
        /\ a.path = Slash(DirDS, LeafG)
        /\ b.path = Slash(DirDashed, LeafG)
        /\ a.name = <<"d","_","s","_","x","_","g">>
        /\ b.name = a.name

----------------------------------------------------------------------------
(***************************************************************************)
(* Properties of Generator.groupCommandsByFile                             *)
(***************************************************************************)
\* the positions of the discovered commands
Discovered == 1..Len(gen.commands)

\* getOutputFilename gives different output files to different commands
OutputFilenameInjective ==
    \A i \in Discovered, j \in Discovered :
        getOutputFilename(cfg, gen.commands[i]) = getOutputFilename(cfg, gen.commands[j])
            => i = j

\* how often command cmd occurs in the groups
Occurrences(groups, cmd) ==
    Cardinality({<<f, k>> \in UNION {{f} \X (1..Len(groups[f])) : f \in DOMAIN groups} :
                    groups[f][k] = cmd})

\* every discovered command is in exactly one group
EveryCommandGroupedOnce(groups) ==
    \A i \in Discovered : Occurrences(groups, gen.commands[i]) = 1

\* all the commands of a group have the namespace of its first command
OneNamespacePerGroup(groups) ==
    \A f \in DOMAIN groups : \A k \in 1..Len(groups[f]) :
        GetPackageName(cfg, groups[f][k].FilePath).name
            = GetPackageName(cfg, groups[f][1].FilePath).name

\* no path element of the generated-file suffix is ..
SuffixWithoutDotDot ==
    \A k \in 1..Len(SplitSlash(cfg.GeneratedFileSuffix)) :
        SplitSlash(cfg.GeneratedFileSuffix)[k] # <<".", ".">>

----------------------------------------------------------------------------
KnownStrategies == {"single", "directory", "path"}

\* C29: a call of GetPackageName leaves every Config field as it was when
\* PackageStrategy is single, directory or path; under any other value it
\* stores "directory" in PackageStrategy and changes no other field, so
\* that every later call on the Config takes the directory branch.
C29_StrategyStored ==
    [][ /\ cfg.PackageStrategy \in KnownStrategies => cfg' = cfg
        /\ cfg.PackageStrategy \notin KnownStrategies
              => cfg' = [cfg EXCEPT !.PackageStrategy = "directory"]
        /\ (\E call \in pkgCalls : call.strategy \notin KnownStrategies)
              => /\ cfg.PackageStrategy = "directory"
                 /\ \A call \in pkgCalls' \ pkgCalls : call.strategy = "directory"
      ]_vars

\* C29 (witness): a call under the strategy flat was followed by a call that
\* found the directory strategy in the Config
C29_Witness ==
    \E a \in pkgCalls, b \in pkgCalls :
        /\ a.strategy = "flat"
        /\ b.strategy = "directory"
        /\ a.path = Slash(DirD, LeafG)
        /\ b.path = LeafG
        /\ cfg = [DefaultConfig EXCEPT !.IndexFormat = a.format]

----------------------------------------------------------------------------
GenerateFailed == GenerateStep /\ lastRun'.err # Nil

\* the output files the failed run wrote are in the tree with the time of
\* the run, and every other output file is as it was before the call
WrittenStayWritten ==
    /\ DOMAIN outFiles' = DOMAIN outFiles \cup lastRun'.written
    /\ \A f \in lastRun'.written : outFiles'[f].mtime = clock
    /\ \A f \in DOMAIN outFiles \ lastRun'.written : outFiles'[f] = outFiles[f]

\* the run ended at the group that failed: that group is neither written nor
\* skipped
ReturnedAtOnce ==
    /\ lastRun'.err.file \in lastRun'.groups
    /\ lastRun'.err.file \notin lastRun'.written \cup lastRun'.skipped
    /\ lastRun'.written \cap lastRun'.skipped = {}

\* C30: Generate has no rollback. When discovery fails, the command list,
\* skipped_files and the output files are as they were before the call. When
\* a later step fails (the oracle's stat, creating the directory or writing
\* the file of some group), the call returns at that group, the files
\* written in this run stay written, the command list is the newly parsed
\* one, and skipped_files keeps the value it had before the call.
C30_NoRollback ==
    [][ GenerateFailed =>
          \E parsed \in {ParseDirectory(cfg, srcFiles)} :
             IF parsed.err # Nil
             THEN /\ gen' = gen
                  /\ outFiles' = outFiles
             ELSE /\ gen'.commands = parsed.commands
                  /\ gen'.skippedFiles = gen.skippedFiles
                  /\ gen'.skippedFiles = lastRun.skippedFiles
                  /\ ReturnedAtOnce
                  /\ WrittenStayWritten
      ]_vars

\* C30 (witness): after a successful run that skipped a file, a run failed
\* at a group after writing another one: the file written is in the tree,
\* the commands are there and skipped_files is still the count of the
\* earlier run
C30_Witness ==
    /\ lastRun.ran
    /\ lastRun.err # Nil
    /\ ~ParseFailed
    /\ lastRun.written # {}
    /\ \A f \in lastRun.written : f \in DOMAIN outFiles /\ outFiles[f].mtime = clock
    /\ Len(gen.commands) = 2
    /\ gen.skippedFiles = 1

====
